---- MODULE Spec2Model ----
(***************************************************************************)
(* r2midi: the client cache layer (CachedApiClient: TTL cache, prefix      *)
(* invalidation, retry with backoff, query wrappers, mutations) and the    *)
(* remote sync sequence (run_git_remote_sync / GitSyncWorker.run).         *)
(*                                                                         *)
(* Strings that are compared by prefix (cache keys, names) are sequences   *)
(* of tokens: a fixed word of a key format is one token, every character   *)
(* of a name is one token.  Directories are sequences of path components.  *)
(***************************************************************************)
EXTENDS Integers, Sequences, FiniteSets, TLC

VARIABLES
    cache,          \* CachedApiClient._cache: key -> <<timestamp, data>>
    cache_timeout,  \* CachedApiClient._cache_timeout
    now,            \* what time.time() returns
    pc,             \* position of the running client call
    call,           \* the running (or last) client call and its arguments
    attempt,        \* _retry_request: loop variable
    max_retries,    \* _retry_request: parameter
    delay,          \* _retry_request: parameter
    outcomes,       \* what func() did on each invocation, in order
    sleeps,         \* the asyncio.sleep() durations, in order
    res,            \* what the last client call returned or raised
    ncalls,         \* number of client calls started
    cleared,        \* history: how many entries the last call's
                    \* clear_cache_for_prefix calls removed (the logged counts)
    lastset,        \* history: key -> <<time, value>> of the last _set_cache
                    \* not followed by a clear of that key
    cwd,            \* the process working directory (os.getcwd / os.chdir)
    ppc,            \* per sync invocation: the step it is at
    variant,        \* per sync invocation: "api" or "gui"
    current_dir,    \* per sync invocation: its local current_dir
    cwd0,           \* history: the working directory when it was called
    restore,        \* history: what the finally's os.chdir did
    pres,           \* per sync invocation: what it returns
    emits,          \* per sync invocation: the finished.emit calls, in order
    gitlog,         \* per sync invocation: the git commands that ran, in order
    dirty,          \* the nested repository has uncommitted changes
    unpushed,       \* the nested repository has commits not yet pushed
    npush,          \* number of sync invocations started
    tree,           \* the devices folder on disk: manufacturer directories
    snapshot,       \* DeviceManager: devices, manufacturers, device_structure
    building,       \* the index a running scan is building
    scanpos,        \* 0: no scan is running; i: directory i is next
    scanned,        \* history: the tree the last finished scan walked
    ref,            \* a reader: the snapshot it took hold of
    rpc,            \* a reader: the part it reads next (0: not reading)
    obs,            \* a reader: the parts it has read
    dq,             \* the last query of the DeviceManager
    dres,           \* what that query returned
    sync_enabled,   \* DeviceManager.sync_enabled / MainWindow.sync_enabled
    sync_who,       \* whose run_git_sync ran last: "server" or "client"
    sync_res,       \* what it returned, and whether git ran
    server,         \* the server's patches of one device, as a value
    qpc,            \* a get_patches coroutine sharing the client: its position
    qgot,           \* the response that coroutine's request was answered with
    mpc,            \* a delete_preset coroutine sharing the client: its position
    server_available,       \* MainWindow.server_available
    server_check_retries,   \* MainWindow.server_check_retries
    wpc,            \* wait_for_server: "timer" (a singleShot to it is pending),
                    \* "checking" (its check runs), "loaded" (load_data called);
                    \* then _load_data_async: "data" (it loads) or "aborted"
    gpc,            \* the startup git sync: "timer", "task", "request", "done"
    nchecks,        \* history: availability checks started
    nloads,         \* history: calls of load_data
    check_answered, \* history: the server answered the last check's request
    reported,       \* history: show_error calls of wait_for_server
    mcall,          \* the last call of MidiUtils and its arguments
    mres,           \* what it returned, with the rtmidi calls it made, in order
    nmidi,          \* number of calls of MidiUtils
    loading_count,  \* MainWindow.loading_count
    visible,        \* the progress bar and loading label are shown
    tpc,            \* per task of run_async_task: where its worker is
    tscope,         \* per task: the coroutine it runs
    tpath,          \* per task: the way the coroutine takes
    tstarts,        \* history: per task, starts of the indicator so far
    tstops          \* history: per task, stops of the indicator so far

cvars == <<cache, cache_timeout, now, pc, call, attempt, max_retries, delay,
           outcomes, sleeps, res, ncalls, cleared, lastset>>

pvars == <<cwd, ppc, variant, current_dir, cwd0, restore, pres, emits, gitlog,
           dirty, unpushed, npush>>

dvars == <<tree, snapshot, building, scanpos, scanned, ref, rpc, obs, dq, dres,
           sync_enabled, sync_who, sync_res>>

avars == <<server, qpc, qgot, mpc>>

gvars == <<server_available, server_check_retries, wpc, gpc, nchecks, nloads,
           check_answered, reported>>

mvars == <<mcall, mres, nmidi>>
lvars == <<loading_count, visible, tpc, tscope, tpath, tstarts, tstops>>

vars == <<cvars, pvars, dvars, avars, gvars, mvars, lvars>>

-----------------------------------------------------------------------------
(* Bounds of the model *)

MaxTime == 2
MaxCacheTimeout == 2
MaxValue == 2
MaxCalls == 3
MaxRetriesArg == 4
MaxDelayArg == 2
MaxPushCalls == 2
\* self.config.server_check_retries
max_server_check_retries == 3
MaxMidiCalls == 1

-----------------------------------------------------------------------------
(* Names and cache keys *)

\* None, and the empty string: both are false in a Python condition
None == <<>>

Manufacturers == { <<"a">> }
Devices == { <<"b">> }
Folders == { <<"c">> }

Values == 1..MaxValue
\* _get_from_cache's miss
NoData == 0

key_manufacturers == <<"manufacturers">>
key_devices_by_manufacturer(m) == <<"devices_by_manufacturer", "_">> \o m
key_device_info(m) == <<"device_info", "_">> \o m
key_community_folders(d) == <<"community_folders", "_">> \o d
key_patches(m, d, f) ==
    <<"patches", "_">> \o m \o <<"_">> \o d \o <<"_">>
        \o (IF f # None THEN f ELSE <<"default">>)
key_midi_ports == <<"midi_ports">>
key_collections(m, d) == <<"collections", "_">> \o m \o <<"_">> \o d

prefix_patches(m, d) == <<"patches", "_">> \o m \o <<"_">> \o d

\* str.startswith
startswith(k, p) == Len(p) <= Len(k) /\ SubSeq(k, 1, Len(p)) = p

-----------------------------------------------------------------------------
(* The cache *)

\* variant: an entry exactly ttl old still counts as valid
is_cache_valid_inclusive(c, k, t, ttl) ==
    IF k \notin DOMAIN c THEN FALSE ELSE t - c[k][1] <= ttl

is_cache_valid(c, k, t, ttl) ==
    IF k \notin DOMAIN c THEN FALSE ELSE t - c[k][1] < ttl

\* variant: the age of the entry is not looked at
get_from_cache_any_age(c, k, t, ttl) ==
    IF k \in DOMAIN c THEN c[k][2] ELSE NoData

get_from_cache(c, k, t, ttl) ==
    IF is_cache_valid(c, k, t, ttl) THEN c[k][2] ELSE NoData

set_cache(c, k, v, t) ==
    [x \in (DOMAIN c) \cup {k} |-> IF x = k THEN <<t, v>> ELSE c[x]]

\* variant: the entries are kept
clear_cache_keeps_entries(c) == c

clear_cache(c) == [x \in {} |-> <<0, 0>>]

\* variant: only the key equal to p is removed
clear_cache_for_prefix_exact(c, p) ==
    [x \in {k \in DOMAIN c : k # p} |-> c[x]]

clear_cache_for_prefix(c, p) ==
    [x \in {k \in DOMAIN c : ~startswith(k, p)} |-> c[x]]

RECURSIVE clear_prefixes(_, _)
\* the clear_cache_for_prefix calls of a mutation, in order
clear_prefixes(c, ps) ==
    IF ps = <<>> THEN c
    ELSE clear_prefixes(clear_cache_for_prefix(c, Head(ps)), Tail(ps))

-----------------------------------------------------------------------------
(* The client calls: each wrapper gives its cache key, and each mutation   *)
(* the prefixes it clears                                                  *)

Query(op, args, key, force_refresh, dflt, early) ==
    [op |-> op, kind |-> "query", args |-> args, key |-> key,
     force |-> force_refresh, prefixes |-> <<>>, dflt |-> dflt, early |-> early]

Mutation(op, args, prefixes) ==
    [op |-> op, kind |-> "mutation", args |-> args, key |-> <<>>,
     force |-> FALSE, prefixes |-> prefixes, dflt |-> "", early |-> FALSE]

Other(op, kind, key) ==
    [op |-> op, kind |-> kind, args |-> <<>>, key |-> key,
     force |-> FALSE, prefixes |-> <<>>, dflt |-> "", early |-> FALSE]

get_manufacturers(force_refresh) ==
    Query("get_manufacturers", <<>>, key_manufacturers, force_refresh, "[]",
          FALSE)

get_devices_by_manufacturer(m, force_refresh) ==
    Query("get_devices_by_manufacturer", <<m>>, key_devices_by_manufacturer(m),
          force_refresh, "[]", FALSE)

get_device_info(m, force_refresh) ==
    Query("get_device_info", <<m>>, key_device_info(m), force_refresh, "[]",
          FALSE)

get_community_folders(d, force_refresh) ==
    Query("get_community_folders", <<d>>, key_community_folders(d),
          force_refresh, "[]", FALSE)

\* returns [] at once unless both manufacturer and device_name are given
get_patches(d, f, m, force_refresh) ==
    Query("get_patches", <<m, d, f>>, key_patches(m, d, f), force_refresh,
          "[]", ~(m # None /\ d # None))

get_midi_ports(force_refresh) ==
    Query("get_midi_ports", <<>>, key_midi_ports, force_refresh,
          "{in:[],out:[]}", FALSE)

get_collections(m, d, force_refresh) ==
    Query("get_collections", <<m, d>>, key_collections(m, d), force_refresh,
          "[default]", FALSE)

create_manufacturer(name) ==
    Mutation("create_manufacturer", <<name>>, << <<"manufacturers">> >>)

delete_manufacturer(name) ==
    Mutation("delete_manufacturer", <<name>>,
             << <<"manufacturers">>, <<"devices_by_manufacturer">> >>)

\* device_data.get('manufacturer') may be missing
create_device(name, m) ==
    Mutation("create_device", <<m, name>>,
             IF m # None THEN << key_devices_by_manufacturer(m) >> ELSE <<>>)

\* variant: the patches of the device are left in the cache
delete_device_devices_only(m, d) ==
    Mutation("delete_device", <<m, d>>, << key_devices_by_manufacturer(m) >>)

delete_device(m, d) ==
    Mutation("delete_device", <<m, d>>,
             << key_devices_by_manufacturer(m), prefix_patches(m, d) >>)

create_preset(m, d) ==
    Mutation("create_preset", <<m, d>>,
             IF m # None /\ d # None THEN << prefix_patches(m, d) >> ELSE <<>>)

update_preset(m, d) ==
    Mutation("update_preset", <<m, d>>,
             IF m # None /\ d # None THEN << prefix_patches(m, d) >> ELSE <<>>)

delete_preset(m, d) ==
    Mutation("delete_preset", <<m, d>>, << prefix_patches(m, d) >>)

create_collection(m, d) ==
    Mutation("create_collection", <<m, d>>, << key_collections(m, d) >>)

update_collection(m, d) ==
    Mutation("update_collection", <<m, d>>,
             << key_collections(m, d), prefix_patches(m, d) >>)

delete_collection(m, d) ==
    Mutation("delete_collection", <<m, d>>,
             << key_collections(m, d), prefix_patches(m, d) >>)

run_git_sync == Other("run_git_sync", "sync", <<>>)

\* _retry_request called on its own
retry_call == Other("_retry_request", "retry", <<>>)

NoCall == Other("", "", <<>>)

OptManufacturers == Manufacturers \cup {None}
OptDevices == Devices \cup {None}
OptFolders == Folders \cup {None}

QueryCalls ==
    {get_manufacturers(fr) : fr \in BOOLEAN}
    \cup {get_devices_by_manufacturer(m, fr) : m \in Manufacturers, fr \in BOOLEAN}
    \cup {get_device_info(m, fr) : m \in Manufacturers, fr \in BOOLEAN}
    \cup {get_community_folders(d, fr) : d \in Devices, fr \in BOOLEAN}
    \cup {get_patches(d, f, m, fr) :
            d \in OptDevices, f \in OptFolders, m \in OptManufacturers,
            fr \in BOOLEAN}
    \cup {get_midi_ports(fr) : fr \in BOOLEAN}
    \cup {get_collections(m, d, fr) :
            m \in Manufacturers, d \in Devices, fr \in BOOLEAN}

MutationCalls ==
    {create_manufacturer(m) : m \in Manufacturers}
    \cup {delete_manufacturer(m) : m \in Manufacturers}
    \cup {create_device(d, m) : d \in Devices, m \in OptManufacturers}
    \cup {delete_device(m, d) : m \in Manufacturers, d \in Devices}
    \cup {create_preset(m, d) : m \in OptManufacturers, d \in OptDevices}
    \cup {update_preset(m, d) : m \in OptManufacturers, d \in OptDevices}
    \cup {delete_preset(m, d) : m \in Manufacturers, d \in Devices}
    \cup {create_collection(m, d) : m \in Manufacturers, d \in Devices}
    \cup {update_collection(m, d) : m \in Manufacturers, d \in Devices}
    \cup {delete_collection(m, d) : m \in Manufacturers, d \in Devices}

\* names as they occur in use: with an underscore ("test_manufacturer"), and
\* one name being the beginning of another
WideManufacturers == { <<"a">>, <<"a", "_", "b">> }
WideDevices == { <<"c">>, <<"c", "c">>, <<"b", "_", "c">> }

WideQueryCalls ==
    {get_manufacturers(FALSE)}
    \cup {get_devices_by_manufacturer(m, FALSE) : m \in WideManufacturers}
    \cup {get_device_info(m, FALSE) : m \in WideManufacturers}
    \cup {get_community_folders(d, FALSE) : d \in WideDevices}
    \cup {get_patches(d, None, m, FALSE) :
            d \in WideDevices, m \in WideManufacturers}
    \cup {get_collections(m, d, FALSE) :
            m \in WideManufacturers, d \in WideDevices}

WideMutationCalls ==
    {delete_manufacturer(m) : m \in WideManufacturers}
    \cup {create_device(d, m) : d \in WideDevices, m \in WideManufacturers}
    \cup {delete_device(m, d) : m \in WideManufacturers, d \in WideDevices}
    \cup {delete_preset(m, d) : m \in WideManufacturers, d \in WideDevices}
    \cup {update_collection(m, d) : m \in WideManufacturers, d \in WideDevices}

-----------------------------------------------------------------------------
(* _retry_request *)

\* raise_for_status's rejection; a network error or timeout of the
\* transport; and any exception that is no httpx.HTTPError
ExceptionClasses == {"HTTPStatusError", "TransportError", "Exception"}

\* isinstance(e, httpx.HTTPError): HTTPStatusError and RequestError (with
\* TransportError, TimeoutException, NetworkError) both derive from it
is_http_error(e) == e \in {"HTTPStatusError", "TransportError"}

\* variant: every failure is retried, whatever its class
on_failure_retry_all(e, att, mr) ==
    IF att < mr - 1 THEN "sleep" ELSE "raise"

\* variant: the delay grows linearly
wait_time_linear(d, att) == d * (att + 1)

\* variant: the last invocation's failure is slept on like the others
on_failure_sleep_last(e, att, mr) ==
    IF is_http_error(e) THEN "raise" ELSE "sleep"

\* what the except clauses do with a failure of func() on loop index att
on_failure(e, att, mr) ==
    IF is_http_error(e) THEN "raise"
    ELSE IF att < mr - 1 THEN "sleep" ELSE "raise"

wait_time(d, att) == d * (2 ^ att)

-----------------------------------------------------------------------------
(* Results *)

Returned(via, val, status) ==
    [kind |-> "returned", via |-> via, val |-> val, status |-> status, exc |-> ""]

Raised(e) ==
    [kind |-> "raised", via |-> "", val |-> 0, status |-> "", exc |-> e]

NoResult ==
    [kind |-> "", via |-> "", val |-> 0, status |-> "", exc |-> ""]

\* the history of writes: what _set_cache and the clears did to a key
hist_set(h, k, v, t) ==
    [x \in (DOMAIN h) \cup {k} |-> IF x = k THEN <<t, v>> ELSE h[x]]

hist_clear(h, ps) ==
    [x \in {k \in DOMAIN h : \A i \in 1..Len(ps) : ~startswith(k, ps[i])} |-> h[x]]

\* the statements of caller c after `await self._retry_request(...)` has
\* returned r (a value of Values for a query, a status otherwise)
after_return(c, r) ==
    CASE c.kind = "query" ->
            /\ cache' = set_cache(cache, c.key, r, now)
            /\ lastset' = hist_set(lastset, c.key, r, now)
            /\ cleared' = 0
            /\ res' = Returned("remote", r, "")
      [] c.kind = "mutation" ->
            /\ cache' = clear_prefixes(cache, c.prefixes)
            /\ lastset' = hist_clear(lastset, c.prefixes)
            /\ cleared' = Cardinality(DOMAIN cache) - Cardinality(DOMAIN cache')
            /\ res' = Returned("remote", 0, r)
      [] c.kind = "sync" ->
            IF r = "success"
            THEN /\ cache' = clear_cache(cache)
                 /\ lastset' = clear_cache(lastset)
                 /\ cleared' = 0
                 /\ res' = Returned("sync", 0, "success")
            ELSE /\ UNCHANGED <<cache, lastset, cleared>>
                 /\ res' = Returned("sync", 0, "error")
      [] OTHER ->
            /\ UNCHANGED <<cache, lastset, cleared>>
            /\ res' = Returned("remote", r, "")

\* variant: a failing query stores the default it returns
after_raise_stores_default(c, e) ==
    /\ IF c.kind = "query"
       THEN /\ cache' = set_cache(cache, c.key, NoData, now)
            /\ lastset' = hist_set(lastset, c.key, NoData, now)
       ELSE UNCHANGED <<cache, lastset>>
    /\ UNCHANGED cleared
    /\ res' = CASE c.kind \in {"query", "mutation"} ->
                     IF is_http_error(e)
                     THEN Returned(IF c.kind = "query" THEN "default" ELSE "except",
                                   0, IF c.kind = "query" THEN c.dflt ELSE "error")
                     ELSE Raised(e)
                [] c.kind = "sync" -> Returned("sync", 0, "error")
                [] OTHER -> Raised(e)

\* variant: a mutation clears its prefixes also when the remote call failed
after_raise_clears_prefixes(c, e) ==
    /\ cache' = clear_prefixes(cache, c.prefixes)
    /\ lastset' = hist_clear(lastset, c.prefixes)
    /\ UNCHANGED cleared
    /\ res' = CASE c.kind \in {"query", "mutation"} ->
                     IF is_http_error(e)
                     THEN Returned(IF c.kind = "query" THEN "default" ELSE "except",
                                   0, IF c.kind = "query" THEN c.dflt ELSE "error")
                     ELSE Raised(e)
                [] c.kind = "sync" -> Returned("sync", 0, "error")
                [] OTHER -> Raised(e)

\* the except clauses of caller c when _retry_request raises e
after_raise(c, e) ==
    /\ UNCHANGED <<cache, lastset, cleared>>
    /\ res' = CASE c.kind = "query" ->
                     IF is_http_error(e) THEN Returned("default", 0, c.dflt)
                     ELSE Raised(e)
                [] c.kind = "mutation" ->
                     IF is_http_error(e) THEN Returned("except", 0, "error")
                     ELSE Raised(e)
                [] c.kind = "sync" -> Returned("sync", 0, "error")
                [] OTHER -> Raised(e)

\* what the remote can answer to caller c
Payloads(c) ==
    IF c.kind \in {"mutation", "sync"} THEN {"success", "error"} ELSE Values

-----------------------------------------------------------------------------
(* Actions of the client *)

\* time passes
Tick ==
    /\ now < MaxTime
    /\ now' = now + 1
    /\ UNCHANGED <<cache, cache_timeout, pc, call, attempt, max_retries, delay,
                   outcomes, sleeps, res, ncalls, cleared, lastset>>
    /\ UNCHANGED <<pvars, dvars, avars, gvars, mvars, lvars>>

StartRetry(mr, d) ==
    /\ attempt' = 0
    /\ max_retries' = mr
    /\ delay' = d
    /\ outcomes' = <<>>
    /\ sleeps' = <<>>

\* a query wrapper up to its first await
QueryCall(c) ==
    /\ pc = "idle" /\ ncalls < MaxCalls
    /\ call' = c
    /\ ncalls' = ncalls + 1
    /\ cleared' = 0
    /\ UNCHANGED <<cache, cache_timeout, now, lastset>>
    /\ UNCHANGED <<pvars, dvars, avars, gvars, mvars, lvars>>
    /\ IF c.early
       THEN /\ res' = Returned("early", 0, c.dflt)
            /\ pc' = "idle"
            /\ StartRetry(0, 0)
       ELSE IF ~c.force /\ get_from_cache(cache, c.key, now, cache_timeout) # NoData
       THEN /\ res' = Returned("hit", get_from_cache(cache, c.key, now, cache_timeout), "")
            /\ pc' = "idle"
            /\ StartRetry(0, 0)
       ELSE /\ res' = NoResult
            /\ pc' = "attempt"
            /\ StartRetry(3, 1)

\* a mutation, or run_git_sync, up to its first await
RemoteCall(c) ==
    /\ pc = "idle" /\ ncalls < MaxCalls
    /\ call' = c
    /\ ncalls' = ncalls + 1
    /\ cleared' = 0
    /\ res' = NoResult
    /\ pc' = "attempt"
    /\ StartRetry(3, 1)
    /\ UNCHANGED <<cache, cache_timeout, now, lastset>>
    /\ UNCHANGED <<pvars, dvars, avars, gvars, mvars, lvars>>

\* _retry_request(func, mr, d) called on its own
RetryCall(mr, d) ==
    /\ pc = "idle" /\ ncalls < MaxCalls
    /\ call' = retry_call
    /\ ncalls' = ncalls + 1
    /\ cleared' = 0
    /\ StartRetry(mr, d)
    /\ IF mr <= 0
       THEN /\ res' = Returned("none", NoData, "") /\ pc' = "idle"
       ELSE /\ res' = NoResult /\ pc' = "attempt"
    /\ UNCHANGED <<cache, cache_timeout, now, lastset>>
    /\ UNCHANGED <<pvars, dvars, avars, gvars, mvars, lvars>>

\* func() returns r: _retry_request returns it and the caller goes on
AttemptReturns(r) ==
    /\ pc = "attempt"
    /\ outcomes' = Append(outcomes, [r |-> "ok", v |-> r])
    /\ after_return(call, r)
    /\ pc' = "idle"
    /\ UNCHANGED <<cache_timeout, now, call, attempt, max_retries, delay,
                   sleeps, ncalls>>
    /\ UNCHANGED <<pvars, dvars, avars, gvars, mvars, lvars>>

\* func() raises e
AttemptRaises(e) ==
    /\ pc = "attempt"
    /\ outcomes' = Append(outcomes, [r |-> e, v |-> NoData])
    /\ IF on_failure(e, attempt, max_retries) = "sleep"
       THEN /\ sleeps' = Append(sleeps, wait_time(delay, attempt))
            /\ pc' = "sleeping"
            /\ UNCHANGED <<cache, lastset, res, cleared>>
       ELSE /\ after_raise(call, e)
            /\ pc' = "idle"
            /\ UNCHANGED sleeps
    /\ UNCHANGED <<cache_timeout, now, call, attempt, max_retries, delay, ncalls>>
    /\ UNCHANGED <<pvars, dvars, avars, gvars, mvars, lvars>>

\* asyncio.sleep returns: the next iteration of the loop
Wake ==
    /\ pc = "sleeping"
    /\ attempt' = attempt + 1
    /\ pc' = "attempt"
    /\ UNCHANGED <<cache, cache_timeout, now, call, max_retries, delay,
                   outcomes, sleeps, res, ncalls, cleared, lastset>>
    /\ UNCHANGED <<pvars, dvars, avars, gvars, mvars, lvars>>

-----------------------------------------------------------------------------
(* Two coroutines that share one CachedApiClient, as the tasks started by  *)
(* MainWindow.run_async_task do: get_patches and delete_preset for the     *)
(* same device.  A coroutine runs without interruption from one await of   *)
(* the remote call to the next.                                            *)

shared_query(force_refresh) == get_patches(<<"b">>, None, <<"a">>, force_refresh)
shared_mutation == delete_preset(<<"a">>, <<"b">>)

AsyncFrame ==
    /\ UNCHANGED <<cache_timeout, now, pc, call, attempt, max_retries, delay,
                   outcomes, sleeps, res>>
    /\ UNCHANGED <<pvars, dvars, gvars, mvars, lvars>>

\* get_patches up to `await self.client.get(...)`: the cache lookup, and on a
\* miss the request is sent
AsyncQueryCall(force_refresh) ==
    /\ qpc \in {"idle", "done"} /\ ncalls < MaxCalls
    /\ ncalls' = ncalls + 1
    /\ qgot' = NoData
    /\ qpc' = IF ~force_refresh
                 /\ get_from_cache(cache, shared_query(force_refresh).key,
                                   now, cache_timeout) # NoData
              THEN "done" ELSE "sent"
    /\ UNCHANGED <<cache, lastset, cleared, server, mpc>>
    /\ AsyncFrame

\* the server answers the GET with what it holds, or the request fails
AsyncQueryAnswered(ok) ==
    /\ qpc = "sent"
    /\ IF ok THEN qgot' = server /\ qpc' = "answered"
             ELSE qgot' = NoData /\ qpc' = "failed"
    /\ UNCHANGED <<cache, lastset, cleared, ncalls, server, mpc>>
    /\ AsyncFrame

\* get_patches after the await: _set_cache of the response, or the except
AsyncQueryResume ==
    /\ qpc \in {"answered", "failed"}
    /\ qpc' = "done"
    /\ IF qpc = "answered"
       THEN /\ cache' = set_cache(cache, shared_query(FALSE).key, qgot, now)
            /\ lastset' = hist_set(lastset, shared_query(FALSE).key, qgot, now)
       ELSE UNCHANGED <<cache, lastset>>
    /\ UNCHANGED <<cleared, ncalls, server, qgot, mpc>>
    /\ AsyncFrame

\* delete_preset up to `await self.client.delete(...)`
AsyncMutationCall ==
    /\ mpc \in {"idle", "done"} /\ ncalls < MaxCalls
    /\ ncalls' = ncalls + 1
    /\ mpc' = "sent"
    /\ UNCHANGED <<cache, lastset, cleared, server, qpc, qgot>>
    /\ AsyncFrame

\* the server applies the deletion (its patches become v), or rejects it
AsyncMutationAnswered(ok, v) ==
    /\ mpc = "sent"
    /\ IF ok THEN server' = v /\ mpc' = "answered"
             ELSE server' = server /\ mpc' = "failed"
    /\ UNCHANGED <<cache, lastset, cleared, ncalls, qpc, qgot>>
    /\ AsyncFrame

\* delete_preset after the await: clear_cache_for_prefix, or the except
AsyncMutationResume ==
    /\ mpc \in {"answered", "failed"}
    /\ mpc' = "done"
    /\ IF mpc = "answered"
       THEN /\ cache' = clear_prefixes(cache, shared_mutation.prefixes)
            /\ lastset' = hist_clear(lastset, shared_mutation.prefixes)
            /\ cleared' = Cardinality(DOMAIN cache) - Cardinality(DOMAIN cache')
       ELSE UNCHANGED <<cache, lastset, cleared>>
    /\ UNCHANGED <<ncalls, server, qpc, qgot>>
    /\ AsyncFrame

-----------------------------------------------------------------------------
(* The cache operations called on their own, over keys of which one is a   *)
(* prefix of another                                                       *)

CacheKeys ==
    {key_manufacturers, key_devices_by_manufacturer(<<"a">>)}
    \cup {key_patches(<<"a">>, d, None) : d \in {<<"b">>, <<"b", "b">>}}

Prefixes ==
    UNION {{SubSeq(k, 1, n) : n \in 0..Len(k)} : k \in CacheKeys}
    \cup {<<"a">>, <<"patches", "_", "b">>}

CacheStep(c) ==
    /\ pc = "idle" /\ ncalls < MaxCalls
    /\ call' = c
    /\ ncalls' = ncalls + 1
    /\ UNCHANGED <<cache_timeout, now, pc, attempt, max_retries, delay,
                   outcomes, sleeps>>
    /\ UNCHANGED <<pvars, dvars, avars, gvars, mvars, lvars>>

SetCache(k, v) ==
    /\ CacheStep(Other("_set_cache", "cache", k))
    /\ cache' = set_cache(cache, k, v, now)
    /\ lastset' = hist_set(lastset, k, v, now)
    /\ cleared' = 0
    /\ res' = Returned("cache", v, "")

\* variant: a lookup that finds its entry expired deletes it
GetFromCache_evicting(k) ==
    /\ CacheStep(Other("_get_from_cache", "cache", k))
    /\ res' = Returned("cache", get_from_cache(cache, k, now, cache_timeout), "")
    /\ cleared' = 0
    /\ IF k \in DOMAIN cache /\ ~is_cache_valid(cache, k, now, cache_timeout)
       THEN /\ cache' = clear_cache_for_prefix_exact(cache, k)
            /\ lastset' = clear_cache_for_prefix_exact(lastset, k)
       ELSE UNCHANGED <<cache, lastset>>

GetFromCache(k) ==
    /\ CacheStep(Other("_get_from_cache", "cache", k))
    /\ res' = Returned("cache", get_from_cache(cache, k, now, cache_timeout), "")
    /\ cleared' = 0
    /\ UNCHANGED <<cache, lastset>>

ClearCache ==
    /\ CacheStep(Other("clear_cache", "cache", <<>>))
    /\ cache' = clear_cache(cache)
    /\ lastset' = clear_cache(lastset)
    /\ cleared' = 0
    /\ res' = Returned("cache", NoData, "")

ClearCacheForPrefix(p) ==
    /\ CacheStep(Other("clear_cache_for_prefix", "cache", p))
    /\ cache' = clear_cache_for_prefix(cache, p)
    /\ lastset' = hist_clear(lastset, <<p>>)
    /\ cleared' = Cardinality(DOMAIN cache) - Cardinality(DOMAIN cache')
    /\ res' = Returned("cache", NoData, "")

-----------------------------------------------------------------------------
(* The remote sync: CachedApiClient.run_git_remote_sync ("api") and the    *)
(* GUI's GitSyncWorker.run ("gui")                                         *)

Workers == {1, 2}

\* the directory the client process is started in
Root == <<"r2midi">>

\* os.path.join(current_dir, "midi-presets")
midi_presets_dir(dir) == Append(dir, "midi-presets")

\* variant: the parent's pointer is staged before the push
ApiSteps_parent_before_push ==
    <<"open_parent", "submodule_sync", "submodule_update", "check_exists",
      "check_isdir", "check_listdir", "chdir", "open_sub", "pre_status",
      "add", "status", "commit", "chdir_back", "parent_add", "push">>

ApiSteps ==
    <<"open_parent", "submodule_sync", "submodule_update", "check_exists",
      "check_isdir", "check_listdir", "chdir", "open_sub", "pre_status",
      "add", "status", "commit", "push", "chdir_back", "parent_add">>

GuiSteps == <<"check_exists", "chdir", "add", "status", "commit", "push">>

Steps(v) == IF v = "api" THEN ApiSteps ELSE GuiSteps

RECURSIVE IndexOf(_, _)
IndexOf(seq, x) == IF Head(seq) = x THEN 1 ELSE 1 + IndexOf(Tail(seq), x)

\* the step after `label`, "done" after the last one
NextStep(v, label) ==
    LET i == IndexOf(Steps(v), label)
    IN IF i = Len(Steps(v)) THEN "done" ELSE Steps(v)[i + 1]

GitSteps == {"submodule_sync", "submodule_update", "pre_status", "add",
             "status", "commit", "push", "parent_add"}

\* the ways a step can fail: a check answering no, git failing, the
\* exception the code names for the step, and any other exception
Failures(v, label) ==
    {"Exception"}
    \cup (IF label \in {"check_exists", "check_isdir"} THEN {"no"} ELSE {})
    \cup (IF v = "api" /\ label \in {"open_parent", "open_sub"}
          THEN {"InvalidGitRepositoryError"} ELSE {})
    \cup (IF v = "api" /\ label = "check_listdir" THEN {"PermissionError"} ELSE {})
    \cup (IF v = "api" /\ label \in GitSteps THEN {"GitCommandError"} ELSE {})
    \cup (IF v = "gui" /\ label \in GitSteps THEN {"returncode"} ELSE {})

\* the steps inside run_git_remote_sync's inner try
InnerSteps == {"pre_status", "add", "status", "commit", "push", "chdir_back",
               "parent_add"}

\* the pair the invocation is about to return (the GUI: success, message);
\* kind "raised" is an exception that left the function; failed is history:
\* the step that failed and how
PushResult(ok, msg) == [kind |-> "", ok |-> ok, msg |-> msg, failed |-> <<>>]

\* an exception on its way out of the function
PushRaise == [kind |-> "raised", ok |-> FALSE, msg |-> "", failed |-> <<>>]

\* variant: the three checks of the directory share one message
api_failure_one_message(label, f) ==
    IF label \in {"check_exists", "check_isdir", "check_listdir"}
    THEN PushResult(FALSE, "Midi-presets directory not found")
    ELSE PushResult(FALSE, "Unexpected error in run_git_remote_sync")

\* what run_git_remote_sync returns when `label` fails with f
api_failure(label, f) ==
    CASE f = "no" /\ label = "check_exists" ->
            PushResult(FALSE, "Midi-presets directory not found")
      [] f = "no" /\ label = "check_isdir" ->
            PushResult(FALSE, "Path exists but is not a directory")
      [] f = "PermissionError" ->
            PushResult(FALSE, "Permission denied when accessing directory")
      [] f = "InvalidGitRepositoryError" /\ label = "open_parent" ->
            PushResult(FALSE, "Not a valid git repository")
      [] f = "InvalidGitRepositoryError" /\ label = "open_sub" ->
            PushResult(FALSE, "Not a git repository")
      [] f = "GitCommandError" /\ label \in InnerSteps ->
            PushResult(FALSE, "Git remote sync failed")
      [] f = "GitCommandError" ->
            PushResult(FALSE, "Git submodule operation failed")
      [] f = "Exception" /\ label \in InnerSteps ->
            PushResult(FALSE, "Error running git remote sync")
      [] OTHER ->
            PushResult(FALSE, "Unexpected error in run_git_remote_sync")

\* the message GitSyncWorker.run sets when `label` fails with f
gui_failure(label, f) ==
    CASE f = "no" -> "Midi-presets directory not found"
      [] f = "returncode" /\ label = "add" -> "Git add failed"
      [] f = "returncode" /\ label = "status" -> "Git status failed"
      [] f = "returncode" /\ label = "commit" -> "Git commit failed"
      [] f = "returncode" /\ label = "push" -> "Git push failed"
      [] OTHER -> "Error during git sync"

\* GitSyncWorker.run emits in the body on its early returns (not in the
\* except clause)
gui_body_emit(label, f) ==
    IF f = "Exception" THEN <<>> ELSE << <<FALSE, gui_failure(label, f)>> >>

\* variant: the directory the process was started in, whatever the
\* working directory is now
os_getcwd_startup(cur) == Root

\* os.getcwd(): the working directory of the process at this moment
os_getcwd(cur) == cur

\* the invocation is called: current_dir = os.getcwd(), a statement that
\* stands before the try block, so that when it raises (the working
\* directory no longer exists) no clause catches it and no finally runs
PushCall(w, v, getcwd_ok) ==
    /\ ppc[w] \in {"idle", "returned"}
    /\ npush < MaxPushCalls
    /\ npush' = npush + 1
    /\ variant' = [variant EXCEPT ![w] = v]
    /\ current_dir' = [current_dir EXCEPT ![w] =
                          IF getcwd_ok THEN os_getcwd(cwd) ELSE <<>>]
    /\ cwd0' = [cwd0 EXCEPT ![w] = cwd]
    /\ restore' = [restore EXCEPT ![w] = ""]
    /\ pres' = [pres EXCEPT ![w] =
                    IF getcwd_ok THEN PushResult(FALSE, "")
                    ELSE [PushRaise EXCEPT !.failed = <<"getcwd", "OSError">>]]
    /\ emits' = [emits EXCEPT ![w] = <<>>]
    /\ gitlog' = [gitlog EXCEPT ![w] = <<>>]
    /\ ppc' = [ppc EXCEPT ![w] = IF getcwd_ok THEN Head(Steps(v)) ELSE "returned"]
    /\ UNCHANGED <<cwd, dirty, unpushed>>
    /\ UNCHANGED <<cvars, dvars, avars, gvars, mvars, lvars>>

\* the step at ppc[w] succeeds
PushStepOk(w) ==
    LET v == variant[w]
        label == ppc[w]
        nochanges == label = "status" /\ ~dirty
        next == IF nochanges THEN "finally" ELSE NextStep(v, label)
    IN
    /\ label \notin {"idle", "finally", "returned"}
    /\ cwd' = CASE label = "chdir" -> midi_presets_dir(current_dir[w])
                [] label = "chdir_back" -> current_dir[w]
                [] OTHER -> cwd
    /\ gitlog' = [gitlog EXCEPT ![w] =
                    IF label \in GitSteps THEN Append(@, label) ELSE @]
    /\ dirty' = IF label = "commit" THEN FALSE ELSE dirty
    /\ unpushed' = CASE label = "commit" -> TRUE
                     [] label = "push" -> FALSE
                     [] OTHER -> unpushed
    /\ IF v = "api"
       THEN /\ pres' = [pres EXCEPT ![w] =
                    CASE nochanges ->
                            PushResult(TRUE, "No changes to commit in midi-presets")
                      [] next = "done" ->
                            PushResult(TRUE, "Successfully added, committed, and pushed")
                      [] OTHER -> @]
            /\ UNCHANGED emits
            \* self.clear_cache() after the parent's git add
            /\ IF next = "done"
               THEN cache' = clear_cache(cache) /\ lastset' = clear_cache(lastset)
               ELSE UNCHANGED <<cache, lastset>>
       ELSE /\ pres' = [pres EXCEPT ![w] =
                    CASE nochanges -> PushResult(FALSE, "No changes to commit")
                      [] next = "done" ->
                            PushResult(TRUE, "Successfully added, committed, and pushed")
                      [] OTHER -> @]
            /\ emits' = [emits EXCEPT ![w] =
                    IF nochanges THEN Append(@, <<TRUE, "No changes to commit">>) ELSE @]
            /\ UNCHANGED <<cache, lastset>>
    /\ ppc' = [ppc EXCEPT ![w] = IF next = "done" THEN "finally" ELSE next]
    /\ UNCHANGED <<variant, current_dir, cwd0, restore, npush>>
    /\ UNCHANGED <<cache_timeout, now, pc, call, attempt, max_retries, delay,
                   outcomes, sleeps, res, ncalls, cleared>>
    /\ UNCHANGED <<dvars, avars, gvars, mvars, lvars>>

\* the step at ppc[w] fails with f: the matching return or except clause
PushStepFails(w, f) ==
    LET v == variant[w]
        label == ppc[w]
    IN
    /\ label \notin {"idle", "finally", "returned"}
    /\ f \in Failures(v, label)
    /\ IF v = "api"
       THEN /\ pres' = [pres EXCEPT ![w] =
                        [api_failure(label, f) EXCEPT !.failed = <<label, f>>]]
            /\ UNCHANGED emits
       ELSE /\ pres' = [pres EXCEPT ![w] =
                        [PushResult(FALSE, gui_failure(label, f))
                            EXCEPT !.failed = <<label, f>>]]
            /\ emits' = [emits EXCEPT ![w] = @ \o gui_body_emit(label, f)]
    /\ gitlog' = [gitlog EXCEPT ![w] =
                    IF label \in GitSteps THEN Append(@, label) ELSE @]
    /\ ppc' = [ppc EXCEPT ![w] = "finally"]
    /\ UNCHANGED <<cwd, variant, current_dir, cwd0, restore, dirty, unpushed, npush>>
    /\ UNCHANGED <<cvars, dvars, avars, gvars, mvars, lvars>>

\* variant: no finally clause, the directory is left where it is
finally_chdir_missing(dir, chdir_ok, cur) == cur

\* the working directory after the finally's os.chdir(dir), which either
\* succeeds or raises and is only logged
finally_chdir(dir, chdir_ok, cur) == IF chdir_ok THEN dir ELSE cur

\* the finally clause: os.chdir(current_dir) inside its own try/except,
\* whose except clause only logs; then the return (and, in the GUI, the
\* emit of the finally clause)
PushFinally(w, chdir_ok) ==
    /\ ppc[w] = "finally"
    /\ cwd' = finally_chdir(current_dir[w], chdir_ok, cwd)
    /\ restore' = [restore EXCEPT ![w] = IF chdir_ok THEN "ok" ELSE "failed"]
    /\ emits' = [emits EXCEPT ![w] =
                    IF variant[w] = "gui" THEN Append(@, <<pres[w].ok, pres[w].msg>>)
                    ELSE @]
    /\ pres' = [pres EXCEPT ![w].kind = "returned"]
    /\ ppc' = [ppc EXCEPT ![w] = "returned"]
    /\ UNCHANGED <<variant, current_dir, cwd0, gitlog, dirty, unpushed, npush>>
    /\ UNCHANGED <<cvars, dvars, avars, gvars, mvars, lvars>>

\* presets are edited in the nested tree between syncs
MakeChange ==
    /\ \A w \in Workers : ppc[w] \in {"idle", "returned"}
    /\ ~dirty
    /\ dirty' = TRUE
    /\ UNCHANGED <<cwd, ppc, variant, current_dir, cwd0, restore, pres, emits,
                   gitlog, unpushed, npush>>
    /\ UNCHANGED <<cvars, dvars, avars, gvars, mvars, lvars>>

\* a query result is cached between syncs
PushFill(k, v) ==
    /\ \A w \in Workers : ppc[w] \in {"idle", "returned"}
    /\ cache = clear_cache(cache)
    /\ cache' = set_cache(cache, k, v, now)
    /\ lastset' = hist_set(lastset, k, v, now)
    /\ UNCHANGED <<cache_timeout, now, pc, call, attempt, max_retries, delay,
                   outcomes, sleeps, res, ncalls, cleared>>
    /\ UNCHANGED <<pvars, dvars, avars, gvars, mvars, lvars>>

-----------------------------------------------------------------------------
(* The server's catalog: DeviceManager over the devices folder *)

\* an optional filter that was not given (Python's None)
NoFilter == ""

\* a device JSON file: its name, its community_folders, the presets of its
\* default collection; ok is false for a file that does not parse
DeviceFile(name, folders, presets) ==
    [name |-> name, community_folders |-> folders, presets |-> presets,
     ok |-> TRUE]

BadFile == [name |-> "", community_folders |-> <<>>, presets |-> <<>>,
            ok |-> FALSE]

\* a collection: default, or a file of a manufacturer's community directory
Collection(name, presets) == [name |-> name, presets |-> presets]

\* a manufacturer directory
Dir(name, files, community) ==
    [name |-> name, files |-> files, community |-> community]

RolandDir ==
    Dir("Roland",
        << DeviceFile("JV-1080", <<"alice">>, <<"P1", "P2", "P3">>) >>,
        << Collection("alice", <<"C1", "C2">>) >>)

KorgDir ==
    Dir("Korg",
        << BadFile, DeviceFile("M1", <<>>, <<"K1", "P1">>) >>,
        << Collection("alice", <<"C3">>) >>)

\* a second manufacturer with a device of the same name
CloneDir ==
    Dir("Korg", << DeviceFile("JV-1080", <<>>, <<"K1">>) >>, <<>>)

BrokenDir == Dir("Yamaha", << BadFile >>, <<>>)

Trees ==
    { <<>>, <<KorgDir>>, <<RolandDir, KorgDir>>, <<RolandDir, CloneDir>>,
      <<BrokenDir, RolandDir>> }

DeviceNames == {"JV-1080", "M1", "D-50"}
ManufacturerNames == {"Roland", "Korg", "Moog"}
FolderNames == {"alice", "bob"}
PresetNames == {"P1", "K1", "C1", "Z9"}

\* a Python dict keyed by name, as the sequence of its values in insertion
\* order: a key that is set again keeps its place
dict_has(d, k) == \E i \in 1..Len(d) : d[i].name = k

dict_get(d, k) == d[CHOOSE i \in 1..Len(d) : d[i].name = k]

dict_set(d, e) ==
    IF dict_has(d, e.name)
    THEN [i \in 1..Len(d) |-> IF d[i].name = e.name THEN e ELSE d[i]]
    ELSE Append(d, e)

Elements(q) == {q[i] : i \in 1..Len(q)}

\* the index before the first scan
EmptySnapshot ==
    [devices |-> <<>>, manufacturers |-> <<>>, device_structure |-> <<>>]

\* the entry of a device: the file's fields, its manufacturer, and its
\* collections (default first, then the manufacturer's community files)
device_entry(dir, f) ==
    [name |-> f.name, manufacturer |-> dir.name,
     community_folders |-> f.community_folders,
     collections |-> <<Collection("default", f.presets)>> \o dir.community]

\* the files of one manufacturer directory from the i-th on: a file that
\* does not parse is logged and skipped
RECURSIVE process_files(_, _, _)
process_files(acc, dir, i) ==
    IF i > Len(dir.files) THEN acc
    ELSE IF ~dir.files[i].ok THEN process_files(acc, dir, i + 1)
    ELSE process_files(
            [devices |-> dict_set(acc.devices, device_entry(dir, dir.files[i])),
             names |-> Append(acc.names, dir.files[i].name)],
            dir, i + 1)

\* one manufacturer directory joins the index being built
process_manufacturer(b, dir) ==
    LET r == process_files([devices |-> b.devices, names |-> <<>>], dir, 1)
    IN  [devices |-> r.devices,
         manufacturers |-> Append(b.manufacturers, dir.name),
         device_structure |->
            IF r.names = <<>> THEN b.device_structure
            ELSE dict_set(b.device_structure,
                          [name |-> dir.name, devices |-> r.names])]

\* the index of a whole tree
RECURSIVE scan_from(_, _, _)
scan_from(b, t, i) ==
    IF i > Len(t) THEN b ELSE scan_from(process_manufacturer(b, t[i]), t, i + 1)

scan_devices(t) == scan_from(EmptySnapshot, t, 1)

\* variant: the finished index is copied into the live one part by part,
\* and a reader runs after the first part
publish_in_place(old, new) == [old EXCEPT !.devices = new.devices]

\* the finished index replaces the live one in one assignment
publish(old, new) == new

\* what an accessor returns
Found(v) == [kind |-> "value", v |-> v]
NotFound == [kind |-> "none", v |-> <<>>]

\* variant: a plain subscript, which raises on an unknown name
get_device_by_name_subscript(s, name) ==
    IF dict_has(s.devices, name) THEN Found(dict_get(s.devices, name))
    ELSE [kind |-> "raise", v |-> <<>>]

get_device_by_name(s, name) ==
    IF dict_has(s.devices, name) THEN Found(dict_get(s.devices, name))
    ELSE NotFound

DeviceManager_get_devices_by_manufacturer(s, m) ==
    IF dict_has(s.device_structure, m)
    THEN Found(dict_get(s.device_structure, m).devices)
    ELSE Found(<<>>)

DeviceManager_get_community_folders(s, name) ==
    IF dict_has(s.devices, name)
    THEN Found(dict_get(s.devices, name).community_folders)
    ELSE Found(<<>>)

\* the presets of a collection, each tagged with its source
tagged(presets, source) ==
    [i \in 1..Len(presets) |-> [preset_name |-> presets[i], source |-> source]]

collection_presets(e, name) ==
    IF dict_has(e.collections, name)
    THEN dict_get(e.collections, name).presets
    ELSE <<>>

\* variant: the community presets are added to the default ones
device_presets_merged(e, community_folder) ==
    IF community_folder # NoFilter
        /\ community_folder \in Elements(e.community_folders)
    THEN tagged(collection_presets(e, "default"), "default")
            \o tagged(collection_presets(e, community_folder), community_folder)
    ELSE tagged(collection_presets(e, "default"), "default")

\* what one candidate device contributes
device_presets(e, community_folder) ==
    IF community_folder # NoFilter
        /\ community_folder \in Elements(e.community_folders)
    THEN tagged(collection_presets(e, community_folder), community_folder)
    ELSE tagged(collection_presets(e, "default"), "default")

\* variant: a device name selects the device whoever owns it
is_candidate_by_name(e, device_name, manufacturer) ==
    IF device_name # NoFilter THEN e.name = device_name
    ELSE manufacturer = NoFilter \/ e.manufacturer = manufacturer

\* the candidate devices: all, or those of the manufacturer and/or of
\* exactly that name
is_candidate(e, device_name, manufacturer) ==
    /\ device_name = NoFilter \/ e.name = device_name
    /\ manufacturer = NoFilter \/ e.manufacturer = manufacturer

RECURSIVE all_presets_from(_, _, _, _, _)
all_presets_from(s, i, device_name, manufacturer, community_folder) ==
    IF i > Len(s.devices) THEN <<>>
    ELSE (IF is_candidate(s.devices[i], device_name, manufacturer)
          THEN device_presets(s.devices[i], community_folder)
          ELSE <<>>)
         \o all_presets_from(s, i + 1, device_name, manufacturer,
                             community_folder)

get_all_presets(s, device_name, manufacturer, community_folder) ==
    all_presets_from(s, 1, device_name, manufacturer, community_folder)

\* a linear scan over the flattened presets: the first match, or not found
get_preset_by_name(s, name) ==
    LET all == get_all_presets(s, NoFilter, NoFilter, NoFilter)
        hits == {i \in 1..Len(all) : all[i].preset_name = name}
    IN  IF hits = {} THEN NotFound
        ELSE Found(all[CHOOSE i \in hits : \A j \in hits : i <= j])

\* a query of the DeviceManager
DmQuery(op, name, manufacturer, community_folder) ==
    [op |-> op, name |-> name, manufacturer |-> manufacturer,
     community_folder |-> community_folder]

NoQuery == DmQuery("", "", "", "")

\* what run_git_sync returns; invoked: whether the git operation ran
SyncResult(kind, ok, msg, invoked) ==
    [kind |-> kind, ok |-> ok, msg |-> msg, invoked |-> invoked]

NoSync == SyncResult("", FALSE, "", FALSE)

\* what git_operations.git_sync (the server) or the client's request gives
SyncOutcomes == { <<TRUE, "Success">>, <<FALSE, "Git sync failed">> }

\* variant: the flag is not looked at
DeviceManager_run_git_sync_always(enabled, outcome) ==
    SyncResult("pair", outcome[1], outcome[2], TRUE)

\* DeviceManager.run_git_sync
DeviceManager_run_git_sync(enabled, outcome) ==
    IF ~enabled THEN SyncResult("pair", FALSE, "Sync is disabled", FALSE)
    ELSE SyncResult("pair", outcome[1], outcome[2], TRUE)

\* MainWindow.run_git_sync: returns None; the request is made only when
\* sync is enabled and the server is available
MainWindow_run_git_sync(enabled, available, outcome) ==
    IF ~enabled THEN SyncResult("none", FALSE, "", FALSE)
    ELSE IF ~available THEN SyncResult("none", FALSE, "", FALSE)
    ELSE SyncResult("none", outcome[1], outcome[2], TRUE)

\* the folder changes on disk (a mutation wrote a file, or a pull merged);
\* the embedding server does not run this during a scan
EditTree(t) ==
    /\ scanpos = 0
    /\ t # tree
    /\ tree' = t
    /\ UNCHANGED <<snapshot, building, scanpos, scanned, ref, rpc, obs, dq,
                   dres, sync_enabled, sync_who, sync_res>>
    /\ UNCHANGED <<cvars, pvars, avars, gvars, mvars, lvars>>

\* scan_devices starts on an empty index of its own
ScanBegin ==
    /\ scanpos = 0
    /\ scanpos' = 1
    /\ building' = EmptySnapshot
    /\ UNCHANGED <<tree, snapshot, scanned, ref, rpc, obs, dq, dres,
                   sync_enabled, sync_who, sync_res>>
    /\ UNCHANGED <<cvars, pvars, avars, gvars, mvars, lvars>>

\* the next manufacturer directory is processed
ScanDir ==
    /\ scanpos \in 1..Len(tree)
    /\ building' = process_manufacturer(building, tree[scanpos])
    /\ scanpos' = scanpos + 1
    /\ UNCHANGED <<tree, snapshot, scanned, ref, rpc, obs, dq, dres,
                   sync_enabled, sync_who, sync_res>>
    /\ UNCHANGED <<cvars, pvars, avars, gvars, mvars, lvars>>

\* the scan ends: the index it built becomes the snapshot
ScanSwap ==
    /\ scanpos = Len(tree) + 1
    /\ snapshot' = publish(snapshot, building)
    /\ scanned' = tree
    /\ scanpos' = 0
    /\ UNCHANGED <<tree, building, ref, rpc, obs, dq, dres, sync_enabled,
                   sync_who, sync_res>>
    /\ UNCHANGED <<cvars, pvars, avars, gvars, mvars, lvars>>

\* a reader in another thread takes hold of the snapshot
ReadBegin ==
    /\ rpc = 0
    /\ ref' = snapshot
    /\ obs' = EmptySnapshot
    /\ rpc' = 1
    /\ UNCHANGED <<tree, snapshot, building, scanpos, scanned, dq, dres,
                   sync_enabled, sync_who, sync_res>>
    /\ UNCHANGED <<cvars, pvars, avars, gvars, mvars, lvars>>

\* and reads its parts one after the other
ReadPart ==
    /\ rpc \in 1..3
    /\ obs' = CASE rpc = 1 -> [obs EXCEPT !.devices = ref.devices]
                [] rpc = 2 -> [obs EXCEPT !.manufacturers = ref.manufacturers]
                [] rpc = 3 -> [obs EXCEPT !.device_structure = ref.device_structure]
    /\ rpc' = (rpc + 1) % 4
    /\ UNCHANGED <<tree, snapshot, building, scanpos, scanned, ref, dq, dres,
                   sync_enabled, sync_who, sync_res>>
    /\ UNCHANGED <<cvars, pvars, avars, gvars, mvars, lvars>>

\* a read accessor is called
Accessor(op, name) ==
    /\ dq' = DmQuery(op, name, NoFilter, NoFilter)
    /\ dres' = CASE op = "get_device_by_name" ->
                        get_device_by_name(snapshot, name)
                 [] op = "get_devices_by_manufacturer" ->
                        DeviceManager_get_devices_by_manufacturer(snapshot, name)
                 [] op = "get_community_folders" ->
                        DeviceManager_get_community_folders(snapshot, name)
                 [] op = "get_preset_by_name" ->
                        get_preset_by_name(snapshot, name)
    /\ UNCHANGED <<tree, snapshot, building, scanpos, scanned, ref, rpc, obs,
                   sync_enabled, sync_who, sync_res>>
    /\ UNCHANGED <<cvars, pvars, avars, gvars, mvars, lvars>>

\* get_all_presets is called
AllPresets(device_name, manufacturer, community_folder) ==
    /\ dq' = DmQuery("get_all_presets", device_name, manufacturer,
                     community_folder)
    /\ dres' = Found(get_all_presets(snapshot, device_name, manufacturer,
                                     community_folder))
    /\ UNCHANGED <<tree, snapshot, building, scanpos, scanned, ref, rpc, obs,
                   sync_enabled, sync_who, sync_res>>
    /\ UNCHANGED <<cvars, pvars, avars, gvars, mvars, lvars>>

\* DeviceManager(..., sync_enabled=b); MainWindow.set_sync_enabled(b)
SetSyncEnabled(b) ==
    /\ b # sync_enabled
    /\ sync_enabled' = b
    /\ UNCHANGED <<tree, snapshot, building, scanpos, scanned, ref, rpc, obs,
                   dq, dres, sync_who, sync_res>>
    /\ UNCHANGED <<cvars, pvars, avars, gvars, mvars, lvars>>

\* the server's pull
ServerRunGitSync(outcome) ==
    /\ sync_who' = "server"
    /\ sync_res' = DeviceManager_run_git_sync(sync_enabled, outcome)
    /\ UNCHANGED <<tree, snapshot, building, scanpos, scanned, ref, rpc, obs,
                   dq, dres, sync_enabled>>
    /\ UNCHANGED <<cvars, pvars, avars, gvars, mvars, lvars>>

\* the client's pull
ClientRunGitSync(available, outcome) ==
    /\ sync_who' = "client"
    /\ sync_res' = MainWindow_run_git_sync(sync_enabled, available, outcome)
    /\ UNCHANGED <<tree, snapshot, building, scanpos, scanned, ref, rpc, obs,
                   dq, dres, sync_enabled>>
    /\ UNCHANGED <<cvars, pvars, avars, gvars, mvars, lvars>>

-----------------------------------------------------------------------------
(* The start of the GUI: MainWindow.__init__ schedules run_git_sync after  *)
(* 500 ms and wait_for_server after 1000 ms                                *)

\* how a request to the server can end: answered with data, or one of the
\* failures of _retry_request's func
CheckOutcomes == {"ok"} \cup ExceptionClasses

\* the server took the request and answered it (an error status is an answer)
server_answered(o) == o \in {"ok", "HTTPStatusError"}

\* check_server_availability: get_manufacturers() returns the list, or []
\* for an httpx.HTTPError, or raises; `manufacturers is not None` is true of
\* both lists, and `except Exception` gives False
check_server_availability(o) == o = "ok" \/ is_http_error(o)

\* the 500 ms timer fires: run_async_task(self.run_git_sync())
GitSyncTimer ==
    /\ gpc = "timer"
    /\ gpc' = "task"
    /\ UNCHANGED <<server_available, server_check_retries, wpc, nchecks, nloads,
                   check_answered, reported>>
    /\ UNCHANGED <<cvars, pvars, dvars, avars, mvars, lvars>>

\* the coroutine MainWindow.run_git_sync starts in its worker: it returns
\* at once when sync is disabled or the server is not known to be available
GitSyncTask ==
    /\ gpc = "task"
    /\ sync_who' = "client"
    /\ IF sync_enabled /\ server_available
       THEN gpc' = "request" /\ sync_res' = NoSync
       ELSE /\ gpc' = "done"
            /\ sync_res' = MainWindow_run_git_sync(sync_enabled,
                                                   server_available, <<FALSE, "">>)
    /\ UNCHANGED <<tree, snapshot, building, scanpos, scanned, ref, rpc, obs,
                   dq, dres, sync_enabled>>
    /\ UNCHANGED <<server_available, server_check_retries, wpc, nchecks, nloads,
                   check_answered, reported>>
    /\ UNCHANGED <<cvars, pvars, avars, mvars, lvars>>

\* `await self.api_client.run_git_sync()` returns
GitSyncReturns(outcome) ==
    /\ gpc = "request"
    /\ gpc' = "done"
    /\ sync_res' = MainWindow_run_git_sync(TRUE, TRUE, outcome)
    /\ UNCHANGED <<tree, snapshot, building, scanpos, scanned, ref, rpc, obs,
                   dq, dres, sync_enabled, sync_who>>
    /\ UNCHANGED <<server_available, server_check_retries, wpc, nchecks, nloads,
                   check_answered, reported>>
    /\ UNCHANGED <<cvars, pvars, avars, mvars, lvars>>

\* wait_for_server, called by the 1000 ms timer (which fires after the
\* 500 ms one) or by the retry timer
WaitForServer ==
    /\ wpc = "timer" /\ gpc # "timer"
    /\ IF server_check_retries >= max_server_check_retries
       THEN /\ reported' = reported + 1
            /\ server_available' = FALSE
            /\ nloads' = nloads + 1
            /\ wpc' = "loaded"
            /\ UNCHANGED <<server_check_retries, nchecks>>
       ELSE /\ server_check_retries' = server_check_retries + 1
            /\ nchecks' = nchecks + 1
            /\ wpc' = "checking"
            /\ UNCHANGED <<server_available, nloads, reported>>
    /\ UNCHANGED <<gpc, check_answered>>
    /\ UNCHANGED <<cvars, pvars, dvars, avars, mvars, lvars>>

\* the check ends with outcome o and on_check_complete runs
CheckComplete(o) ==
    /\ wpc = "checking"
    /\ check_answered' = server_answered(o)
    /\ IF check_server_availability(o)
       THEN /\ server_available' = TRUE
            /\ server_check_retries' = 0
            /\ nloads' = nloads + 1
            /\ wpc' = "loaded"
       ELSE /\ wpc' = "timer"
            /\ UNCHANGED <<server_available, server_check_retries, nloads>>
    /\ UNCHANGED <<gpc, nchecks, reported>>
    /\ UNCHANGED <<cvars, pvars, dvars, avars, mvars, lvars>>

\* load_data's coroutine _load_data_async up to its try: when the server
\* is not known to be available it checks once more, and returns or goes on
LoadDataAsync(o) ==
    /\ wpc = "loaded"
    /\ IF server_available
       THEN wpc' = "data" /\ UNCHANGED <<server_available, check_answered>>
       ELSE /\ check_answered' = server_answered(o)
            /\ server_available' = check_server_availability(o)
            /\ wpc' = IF check_server_availability(o) THEN "data" ELSE "aborted"
    /\ UNCHANGED <<server_check_retries, gpc, nchecks, nloads, reported>>
    /\ UNCHANGED <<cvars, pvars, dvars, avars, mvars, lvars>>

-----------------------------------------------------------------------------
(* The server's MIDI output: MidiUtils.  A command and a port name are     *)
(* sequences of characters; a MIDI message is the list of its bytes.       *)

\* str.find(sub, start): the least index (from 0) at or after start where
\* sub occurs, -1 when there is none
find(str, sub, start) ==
    LET hits == {i \in start..(Len(str) - Len(sub)) :
                    SubSeq(str, i + 1, i + Len(sub)) = sub}
    IN IF hits = {} THEN -1 ELSE CHOOSE i \in hits : \A j \in hits : i <= j

\* str[a:b]
slice(str, a, b) == SubSeq(str, a + 1, b)

DigitValue ==
    [c \in {"0", "1", "2", "3", "4", "5", "6", "7", "8", "9"} |->
        CASE c = "0" -> 0 [] c = "1" -> 1 [] c = "2" -> 2 [] c = "3" -> 3
          [] c = "4" -> 4 [] c = "5" -> 5 [] c = "6" -> 6 [] c = "7" -> 7
          [] c = "8" -> 8 [] c = "9" -> 9]

RECURSIVE digits_value(_)
digits_value(t) ==
    IF t = <<>> THEN 0
    ELSE 10 * digits_value(SubSeq(t, 1, Len(t) - 1)) + DigitValue[t[Len(t)]]

\* int(text) raises ValueError unless text is digits after an optional sign
int_raises(t) ==
    LET body == IF t # <<>> /\ t[1] \in {"-", "+"} THEN Tail(t) ELSE t
    IN body = <<>> \/ \E i \in 1..Len(body) : body[i] \notin DOMAIN DigitValue

int(t) ==
    IF t[1] = "-" THEN 0 - digits_value(Tail(t))
    ELSE IF t[1] = "+" THEN digits_value(Tail(t))
    ELSE digits_value(t)

\* what a send returns, with the history of the calls it made on rtmidi
MidiResult(ok, msg, log) == [ok |-> ok, msg |-> msg, log |-> log]

\* the ways the rtmidi calls of one send can fail
RtFailures == {"none", "no_rtmidi", "open_port", "send_cc", "send_pc",
               "close_port"}

\* variant: the Program Change goes out first
messages_pc_first(channel, cc_number, cc_value, pgm_value) ==
    << <<192 + (channel - 1), pgm_value>>,
       <<176 + (channel - 1), cc_number, cc_value>> >>

\* cc_message and pc_message, in the order they are sent
messages(channel, cc_number, cc_value, pgm_value) ==
    << <<176 + (channel - 1), cc_number, cc_value>>,
       <<192 + (channel - 1), pgm_value>> >>

\* the body shared by _send_rtmidi_message and send_preset_select: find the
\* port, open it, send the two messages, close it; n numbers the send
\* within the caller, f is the rtmidi call that raises
rtmidi_send(port_name, channel, cc_number, cc_value, pgm_value, available_ports, f, n, what) ==
    LET found == {i \in 1..Len(available_ports) :
                    find(available_ports[i], port_name, 0) >= 0}
        port_index == CHOOSE i \in found : \A j \in found : i <= j
        port == available_ports[port_index]
        m == messages(channel, cc_number, cc_value, pgm_value)
        open == [ev |-> "open_port", n |-> n, port |-> port, msg |-> <<>>]
        first == [ev |-> "send_message", n |-> n, port |-> port, msg |-> m[1]]
        second == [ev |-> "send_message", n |-> n, port |-> port, msg |-> m[2]]
        close == [ev |-> "close_port", n |-> n, port |-> port, msg |-> <<>>]
        error == "Error sending " \o what
    IN
    IF f = "no_rtmidi" THEN MidiResult(FALSE, "rtmidi module is not available", <<>>)
    ELSE IF found = {} THEN MidiResult(FALSE, "MIDI output port not found", <<>>)
    ELSE CASE f = "open_port" -> MidiResult(FALSE, error, <<>>)
           [] f = "send_cc" -> MidiResult(FALSE, error, <<open>>)
           [] f = "send_pc" -> MidiResult(FALSE, error, <<open, first>>)
           [] f = "close_port" -> MidiResult(FALSE, error, <<open, first, second>>)
           [] OTHER -> MidiResult(TRUE, what \o " sent successfully",
                                  <<open, first, second, close>>)

MidiUtils_send_rtmidi_message(port_name, channel, cc_0_value, pgm_value, available_ports, f, n) ==
    rtmidi_send(port_name, channel, 0, cc_0_value, pgm_value, available_ports,
                f, n, "MIDI messages")

send_preset_select(port_name, channel, pgm_value, cc_value, cc_number, available_ports, f, n) ==
    rtmidi_send(port_name, channel, cc_number, cc_value, pgm_value,
                available_ports, f, n, "preset selection")

\* the second send, to the sequencer port, after a first send r that
\* succeeded: its failure is the result, otherwise ok stands
with_sequencer(ok, r, seq) ==
    IF ~seq.ok
    THEN [ok |-> FALSE, msg |-> "Error sending to sequencer port",
          log |-> r.log \o seq.log, seq |-> "failed"]
    ELSE [ok |-> ok.ok, msg |-> ok.msg, log |-> r.log \o seq.log, seq |-> "ok"]

without_sequencer(r) ==
    [ok |-> r.ok, msg |-> r.msg, log |-> r.log, seq |-> "none"]

send_midi_command(command, sequencer_port, available_ports, f1, f2) ==
    LET invalid(msg) == without_sequencer(MidiResult(FALSE, msg, <<>>))
        dev_dq == find(command, <<"d", "e", "v", " ", "\"">>, 0)
        dev_sq == find(command, <<"d", "e", "v", " ", "'">>, 0)
        dev_pos == IF dev_dq >= 0 THEN dev_dq ELSE dev_sq
        quote_char == IF dev_dq >= 0 THEN "\"" ELSE "'"
        port_start_pos == dev_pos + 5
        port_end_pos == find(command, <<quote_char>>, port_start_pos)
        port_name == slice(command, port_start_pos, port_end_pos)
        ch_pos == find(command, <<"c", "h", " ">>, port_end_pos)
        ch_start_pos == ch_pos + 3
        ch_space == find(command, <<" ">>, ch_start_pos)
        ch_end_pos == IF ch_space < 0 THEN Len(command) ELSE ch_space
        ch_text == slice(command, ch_start_pos, ch_end_pos)
        cc_pos == find(command, <<"c", "c", " ", "0", " ">>, ch_end_pos)
        cc_start_pos == cc_pos + 5
        cc_space == find(command, <<" ">>, cc_start_pos)
        cc_end_pos == IF cc_space < 0 THEN Len(command) ELSE cc_space
        cc_text == slice(command, cc_start_pos, cc_end_pos)
        pc_pos == find(command, <<"p", "c", " ">>, cc_end_pos)
        pc_start_pos == pc_pos + 3
        pc_space == find(command, <<" ">>, pc_start_pos)
        pc_end_pos == IF pc_space < 0 THEN Len(command) ELSE pc_space
        pc_text == slice(command, pc_start_pos, pc_end_pos)
        r == MidiUtils_send_rtmidi_message(port_name, int(ch_text), int(cc_text),
                                           int(pc_text), available_ports, f1, 1)
        seq == MidiUtils_send_rtmidi_message(sequencer_port, int(ch_text),
                                             int(cc_text), int(pc_text),
                                             available_ports, f2, 2)
    IN
    IF dev_pos < 0 THEN invalid("missing 'dev' parameter")
    ELSE IF port_end_pos < 0 THEN invalid("missing closing quote for port name")
    ELSE IF ch_pos < 0 THEN invalid("missing 'ch' parameter")
    ELSE IF int_raises(ch_text) THEN invalid("Invalid MIDI channel")
    ELSE IF int(ch_text) < 1 \/ int(ch_text) > 16
         THEN invalid("Invalid MIDI channel. Must be between 1 and 16.")
    ELSE IF cc_pos < 0 THEN invalid("missing 'cc 0' parameter")
    ELSE IF int_raises(cc_text) THEN invalid("Invalid CC value")
    ELSE IF int(cc_text) < 0 \/ int(cc_text) > 127
         THEN invalid("Invalid CC value. Must be between 0 and 127.")
    ELSE IF pc_pos < 0 THEN invalid("missing 'pc' parameter")
    ELSE IF int_raises(pc_text) THEN invalid("Invalid program change value")
    ELSE IF int(pc_text) < 0 \/ int(pc_text) > 127
         THEN invalid("Invalid program change value. Must be between 0 and 127.")
    ELSE IF ~r.ok THEN without_sequencer(r)
    ELSE IF sequencer_port # None
         THEN with_sequencer(MidiResult(TRUE, "Command executed successfully", <<>>),
                             r, seq)
    ELSE without_sequencer(MidiResult(TRUE, "Command executed successfully", r.log))

asend_preset_select(port_name, channel, pgm_value, cc_value, cc_number, sequencer_port, available_ports, f1, f2) ==
    LET result == send_preset_select(port_name, channel, pgm_value, cc_value,
                                     cc_number, available_ports, f1, 1)
        seq_result == send_preset_select(sequencer_port, channel, pgm_value,
                                         cc_value, cc_number, available_ports,
                                         f2, 2)
    IN
    IF sequencer_port # None /\ result.ok
    THEN with_sequencer(result, result, seq_result)
    ELSE without_sequencer(result)

\* the parts commands are put together from: well-formed, missing and
\* malformed ones, and words that end in the letters of a keyword
DevParts ==
    { <<"d", "e", "v", " ", "\"", "P", "\"", " ">>,
      <<"d", "e", "v", " ", "'", "P", "'", " ">>,
      <<"d", "e", "v", " ", "\"", "P", " ">>,
      <<"p", "o", "r", "t", " ", "\"", "P", "\"", " ">> }
\* the channel
ChParts ==
    { <<"c", "h", " ", "1", " ">>,
      <<"c", "h", " ", "1", "6", " ">>,
      <<"c", "h", " ", "1", "7", " ">>,
      <<"c", "h", " ", "x", " ">>,
      <<>>,
      <<"p", "a", "t", "c", "h", " ", "5", " ">> }
\* the bank select
CcParts ==
    { <<"c", "c", " ", "0", " ", "0", " ">>,
      <<"c", "c", " ", "0", " ", "1", "2", "7", " ">>,
      <<"c", "c", " ", "0", " ", "1", "2", "8", " ">>,
      <<>> }
\* the program change
PcParts ==
    { <<"p", "c", " ", "0">>,
      <<"p", "c", " ", "1", "2", "7">>,
      <<"p", "c", " ", "1", "2", "8">>,
      <<"p", "c", " ", "-", "1">>,
      <<>> }

Commands ==
    {d \o c \o b \o q : d \in DevParts, c \in ChParts, b \in CcParts, q \in PcParts}

PortNames == { <<"P">>, <<"Q">> }
AvailablePorts == { <<>>, << <<"P">> >>, << <<"P">>, <<"Q">> >> }

\* arguments as a caller may pass them
ChannelArgs == {0, 1, 16, 17}
DataArgs == {0, 127, 128}

NoMidiCall == [op |-> "", command |-> <<>>, port_name |-> <<>>,
               args |-> <<>>, sequencer_port |-> None,
               available_ports |-> <<>>]

MidiInit ==
    /\ mcall = NoMidiCall
    /\ mres = without_sequencer(MidiResult(FALSE, "", <<>>))
    /\ nmidi = 0

\* MidiUtils.send_midi_command(command, sequencer_port)
SendMidiCommand(command, sequencer_port, available_ports, f1, f2) ==
    /\ nmidi < MaxMidiCalls
    /\ nmidi' = nmidi + 1
    /\ mcall' = [op |-> "send_midi_command", command |-> command,
                 port_name |-> <<>>, args |-> <<>>,
                 sequencer_port |-> sequencer_port,
                 available_ports |-> available_ports]
    /\ mres' = send_midi_command(command, sequencer_port, available_ports, f1, f2)
    /\ UNCHANGED <<cvars, pvars, dvars, avars, gvars, lvars>>

\* MidiUtils.asend_preset_select(port_name, channel, pgm_value, cc_value,
\* cc_number, sequencer_port)
SendPresetSelect(port_name, channel, pgm_value, cc_value, cc_number, sequencer_port, available_ports, f1, f2) ==
    /\ nmidi < MaxMidiCalls
    /\ nmidi' = nmidi + 1
    /\ mcall' = [op |-> "asend_preset_select", command |-> <<>>,
                 port_name |-> port_name,
                 args |-> <<channel, pgm_value, cc_value, cc_number>>,
                 sequencer_port |-> sequencer_port,
                 available_ports |-> available_ports]
    /\ mres' = asend_preset_select(port_name, channel, pgm_value, cc_value,
                                   cc_number, sequencer_port, available_ports,
                                   f1, f2)
    /\ UNCHANGED <<cvars, pvars, dvars, avars, gvars, lvars>>

-----------------------------------------------------------------------------
(* The loading indicator of the main window.  A task is one call of        *)
(* run_async_task: an AsyncWorker that runs one coroutine of the window.   *)

Tasks == {1, 2}

Scopes == {"_load_data_async", "load_patches", "run_git_sync",
           "_send_preset_async"}

\* the ways through a coroutine, by where it leaves
Paths(scope) ==
    CASE scope = "_load_data_async" ->
            {"unavailable", "no_manufacturers", "completed", "raised"}
      [] scope = "load_patches" -> {"unavailable", "completed", "raised"}
      [] scope = "run_git_sync" ->
            {"disabled", "unavailable", "completed", "raised"}
      [] scope = "_send_preset_async" ->
            {"nothing_selected", "unavailable", "completed", "raised"}

\* the returns that come before the coroutine's _start_loading
leaves_before_start(path) == path \in {"disabled", "nothing_selected"}

\* calls of _stop_loading on a way out: one before a return ahead of the
\* try, one in the finally clause of the try, and in _load_data_async one
\* more before the return inside the try when no manufacturer was loaded
stops_on(scope, path) ==
    IF scope = "_load_data_async" /\ path = "no_manufacturers" THEN 2 ELSE 1

\* _start_loading_direct
start_loading_direct(count) == count + 1

\* _stop_loading_direct
stop_loading_direct(count) == IF count - 1 > 0 THEN count - 1 ELSE 0

RECURSIVE stop_loading_times(_, _)
stop_loading_times(count, k) ==
    IF k = 0 THEN count
    ELSE stop_loading_times(stop_loading_direct(count), k - 1)

LoadingInit ==
    /\ loading_count = 0
    /\ visible = FALSE
    /\ tpc = [t \in Tasks |-> "idle"]
    /\ tscope = [t \in Tasks |-> ""]
    /\ tpath = [t \in Tasks |-> ""]
    /\ tstarts = [t \in Tasks |-> 0]
    /\ tstops = [t \in Tasks |-> 0]

LoadingFrame == UNCHANGED <<cvars, pvars, dvars, avars, gvars, mvars>>

\* AsyncWorker.run begins: emit_start_loading
WorkerRun(t, scope) ==
    /\ tpc[t] = "idle"
    /\ tpc' = [tpc EXCEPT ![t] = "worker"]
    /\ tscope' = [tscope EXCEPT ![t] = scope]
    /\ loading_count' = start_loading_direct(loading_count)
    /\ visible' = TRUE
    /\ tstarts' = [tstarts EXCEPT ![t] = @ + 1]
    /\ UNCHANGED <<tpath, tstops>>
    /\ LoadingFrame

\* the coroutine begins: it returns at once, or calls _start_loading
ScopeEnter(t, path) ==
    /\ tpc[t] = "worker"
    /\ path \in Paths(tscope[t])
    /\ tpath' = [tpath EXCEPT ![t] = path]
    /\ IF leaves_before_start(path)
       THEN /\ tpc' = [tpc EXCEPT ![t] = "after"]
            /\ UNCHANGED <<loading_count, visible, tstarts>>
       ELSE /\ tpc' = [tpc EXCEPT ![t] = "scope"]
            /\ loading_count' = start_loading_direct(loading_count)
            /\ visible' = TRUE
            /\ tstarts' = [tstarts EXCEPT ![t] = @ + 1]
    /\ UNCHANGED <<tscope, tstops>>
    /\ LoadingFrame

\* the coroutine leaves: its calls of _stop_loading on the way out
ScopeExit(t) ==
    /\ tpc[t] = "scope"
    /\ tpc' = [tpc EXCEPT ![t] = "after"]
    /\ loading_count' =
          stop_loading_times(loading_count, stops_on(tscope[t], tpath[t]))
    /\ visible' = IF loading_count' = 0 THEN FALSE ELSE visible
    /\ tstops' = [tstops EXCEPT ![t] = @ + stops_on(tscope[t], tpath[t])]
    /\ UNCHANGED <<tscope, tpath, tstarts>>
    /\ LoadingFrame

\* AsyncWorker.run ends: emit_stop_loading in its finally clause
WorkerFinally(t) ==
    /\ tpc[t] = "after"
    /\ tpc' = [tpc EXCEPT ![t] = "done"]
    /\ loading_count' = stop_loading_direct(loading_count)
    /\ visible' = IF loading_count' = 0 THEN FALSE ELSE visible
    /\ tstops' = [tstops EXCEPT ![t] = @ + 1]
    /\ UNCHANGED <<tscope, tpath, tstarts>>
    /\ LoadingFrame

-----------------------------------------------------------------------------
(* Specifications *)

ClientInit ==
    /\ cache = [x \in {} |-> <<0, 0>>]
    /\ cache_timeout \in 1..MaxCacheTimeout
    /\ now = 0
    /\ pc = "idle"
    /\ call = NoCall
    /\ attempt = 0 /\ max_retries = 0 /\ delay = 0
    /\ outcomes = <<>> /\ sleeps = <<>>
    /\ res = NoResult
    /\ ncalls = 0
    /\ cleared = 0
    /\ lastset = [x \in {} |-> <<0, 0>>]

PushInit ==
    /\ cwd = Root
    /\ ppc = [w \in Workers |-> "idle"]
    /\ variant = [w \in Workers |-> ""]
    /\ current_dir = [w \in Workers |-> <<>>]
    /\ cwd0 = [w \in Workers |-> <<>>]
    /\ restore = [w \in Workers |-> ""]
    /\ pres = [w \in Workers |-> PushResult(FALSE, "")]
    /\ emits = [w \in Workers |-> <<>>]
    /\ gitlog = [w \in Workers |-> <<>>]
    /\ dirty = FALSE
    /\ unpushed = FALSE
    /\ npush = 0

DmInit ==
    /\ tree = <<>>
    /\ snapshot = EmptySnapshot
    /\ building = EmptySnapshot
    /\ scanpos = 0
    /\ scanned = <<>>
    /\ ref = EmptySnapshot
    /\ rpc = 0
    /\ obs = EmptySnapshot
    /\ dq = NoQuery
    /\ dres = NotFound
    /\ sync_enabled = TRUE
    /\ sync_who = ""
    /\ sync_res = NoSync

AsyncInit ==
    /\ server = 1
    /\ qpc = "idle"
    /\ qgot = NoData
    /\ mpc = "idle"

\* MainWindow.__init__: both timers are scheduled
GuiInit ==
    /\ server_available = FALSE
    /\ server_check_retries = 0
    /\ wpc = "timer"
    /\ gpc = "timer"
    /\ nchecks = 0 /\ nloads = 0
    /\ check_answered = FALSE
    /\ reported = 0

Init ==
    /\ ClientInit /\ PushInit /\ DmInit /\ AsyncInit /\ GuiInit /\ MidiInit
    /\ LoadingInit

(* the client: query wrappers, mutations and run_git_sync, one at a time *)
Next ==
    \/ Tick
    \/ \E c \in QueryCalls : QueryCall(c)
    \/ \E c \in MutationCalls \cup {run_git_sync} : RemoteCall(c)
    \/ \E r \in Payloads(call) : AttemptReturns(r)
    \/ \E e \in ExceptionClasses : AttemptRaises(e)
    \/ Wake

Spec == Init /\ [][Next]_vars

(* the cache operations alone *)
NextCache ==
    \/ Tick
    \/ \E k \in CacheKeys, v \in Values : SetCache(k, v)
    \/ \E k \in CacheKeys : GetFromCache(k)
    \/ ClearCache
    \/ \E p \in Prefixes : ClearCacheForPrefix(p)

SpecCache == Init /\ [][NextCache]_vars

(* _retry_request alone, for any max_retries and delay *)
NextRetry ==
    \/ \E mr \in 0..MaxRetriesArg, d \in 1..MaxDelayArg : RetryCall(mr, d)
    \/ \E r \in Payloads(call) : AttemptReturns(r)
    \/ \E e \in ExceptionClasses : AttemptRaises(e)
    \/ Wake

SpecRetry == Init /\ [][NextRetry]_vars

(* one sync invocation at a time *)
NextPush ==
    \/ \E v \in {"api", "gui"}, getcwd_ok \in BOOLEAN : PushCall(1, v, getcwd_ok)
    \/ PushStepOk(1)
    \/ \E f \in Failures(variant[1], ppc[1]) : PushStepFails(1, f)
    \/ \E chdir_ok \in BOOLEAN : PushFinally(1, chdir_ok)
    \/ MakeChange
    \/ PushFill(key_manufacturers, 1)

SpecPush == Init /\ [][NextPush]_vars

(* two sync invocations running at the same time, no lock between them *)
NextPush2 ==
    \/ \E w \in Workers, v \in {"api", "gui"}, getcwd_ok \in BOOLEAN :
            PushCall(w, v, getcwd_ok)
    \/ \E w \in Workers : PushStepOk(w)
    \/ \E w \in Workers : \E f \in Failures(variant[w], ppc[w]) : PushStepFails(w, f)
    \/ \E w \in Workers, chdir_ok \in BOOLEAN : PushFinally(w, chdir_ok)
    \/ MakeChange

SpecPush2 == Init /\ [][NextPush2]_vars

(* a scan of the devices folder and a reader in another thread *)
NextScan ==
    \/ \E t \in Trees : EditTree(t)
    \/ ScanBegin
    \/ ScanDir
    \/ ScanSwap
    \/ ReadBegin
    \/ ReadPart

SpecScan == Init /\ [][NextScan]_vars

(* the queries of the DeviceManager between scans *)
NextCatalog ==
    \/ \E t \in Trees : EditTree(t)
    \/ ScanBegin
    \/ ScanDir
    \/ ScanSwap
    \/ \E op \in {"get_device_by_name", "get_community_folders"},
          name \in DeviceNames : Accessor(op, name)
    \/ \E m \in ManufacturerNames : Accessor("get_devices_by_manufacturer", m)
    \/ \E name \in PresetNames : Accessor("get_preset_by_name", name)
    \/ \E d \in DeviceNames \cup {NoFilter},
          m \in ManufacturerNames \cup {NoFilter},
          f \in FolderNames \cup {NoFilter} : AllPresets(d, m, f)

SpecCatalog == Init /\ [][NextCatalog]_vars

(* pull on the server and on the client, sync enabled or not *)
NextPull ==
    \/ \E b \in BOOLEAN : SetSyncEnabled(b)
    \/ \E o \in SyncOutcomes : ServerRunGitSync(o)
    \/ \E a \in BOOLEAN, o \in SyncOutcomes : ClientRunGitSync(a, o)
    \/ \E t \in Trees : EditTree(t)
    \/ ScanBegin
    \/ ScanDir
    \/ ScanSwap

SpecPull == Init /\ [][NextPull]_vars

(* a query and a mutation of one device as concurrent coroutines *)
NextAsync ==
    \/ Tick
    \/ \E fr \in BOOLEAN : AsyncQueryCall(fr)
    \/ \E ok \in BOOLEAN : AsyncQueryAnswered(ok)
    \/ AsyncQueryResume
    \/ AsyncMutationCall
    \/ \E ok \in BOOLEAN, v \in Values \ {server} : AsyncMutationAnswered(ok, v)
    \/ AsyncMutationResume

SpecAsync == Init /\ [][NextAsync]_vars

(* queries and mutations over names that contain or continue one another *)
NextNames ==
    \/ \E c \in WideQueryCalls : QueryCall(c)
    \/ \E c \in WideMutationCalls : RemoteCall(c)
    \/ \E r \in Payloads(call) : AttemptReturns(r)
    \/ AttemptRaises("HTTPStatusError")

SpecNames == Init /\ [][NextNames]_vars

(* the client's two syncs, run_git_sync and run_git_remote_sync, over a  *)
(* cache that queries fill                                                *)
NextSync ==
    \/ \E v \in Values : PushFill(key_manufacturers, v)
    \/ RemoteCall(run_git_sync)
    \/ \E r \in Payloads(call) : AttemptReturns(r)
    \/ \E e \in ExceptionClasses : AttemptRaises(e)
    \/ Wake
    \/ \E getcwd_ok \in BOOLEAN : PushCall(1, "api", getcwd_ok)
    \/ PushStepOk(1)
    \/ \E f \in Failures(variant[1], ppc[1]) : PushStepFails(1, f)
    \/ \E chdir_ok \in BOOLEAN : PushFinally(1, chdir_ok)
    \/ MakeChange

SpecSync == Init /\ [][NextSync]_vars

(* the start of the GUI *)
NextStartup ==
    \/ GitSyncTimer
    \/ GitSyncTask
    \/ \E o \in SyncOutcomes : GitSyncReturns(o)
    \/ WaitForServer
    \/ \E o \in CheckOutcomes : CheckComplete(o)
    \/ \E o \in CheckOutcomes : LoadDataAsync(o)

SpecStartup == Init /\ [][NextStartup]_vars

(* the tasks of the main window and its loading indicator *)
NextLoading ==
    \/ \E t \in Tasks, scope \in Scopes : WorkerRun(t, scope)
    \/ \E t \in Tasks, path \in UNION {Paths(sc) : sc \in Scopes} :
          ScopeEnter(t, path)
    \/ \E t \in Tasks : ScopeExit(t)
    \/ \E t \in Tasks : WorkerFinally(t)

SpecLoading == Init /\ [][NextLoading]_vars

(* the server's MIDI output, for any command and any arguments *)
\* there is a second send to fail only when a sequencer port is given
SecondFailures(sequencer_port) ==
    IF sequencer_port = None THEN {"none"} ELSE RtFailures

NextMidi ==
    \/ /\ nmidi < MaxMidiCalls
       /\ \E command \in Commands, sequencer_port \in {None, <<"Q">>},
             available_ports \in AvailablePorts, f1 \in RtFailures :
             \E f2 \in SecondFailures(sequencer_port) :
               SendMidiCommand(command, sequencer_port, available_ports, f1, f2)
    \/ /\ nmidi < MaxMidiCalls
       /\ \E port_name \in PortNames, channel \in ChannelArgs,
             pgm_value \in DataArgs, cc_value \in DataArgs,
             cc_number \in DataArgs, sequencer_port \in {None, <<"Q">>},
             available_ports \in AvailablePorts, f1 \in RtFailures :
             \E f2 \in SecondFailures(sequencer_port) :
               SendPresetSelect(port_name, channel, pgm_value, cc_value,
                                cc_number, sequencer_port, available_ports,
                                f1, f2)

SpecMidi == Init /\ [][NextMidi]_vars

-----------------------------------------------------------------------------
(* Properties of the remote sync *)

-----------------------------------------------------------------------------
(* Properties of _retry_request *)

\* C2 (as stated): when func fails with a transport-level failure (network
\* error or timeout) on an invocation that is not the max_retries-th,
\* _retry_request does not end there: func is invoked again.
C2_TransportFailureRetried ==
    \A i \in 1..Len(outcomes) :
        (call.op = "_retry_request" /\ pc = "idle"
            /\ outcomes[i].r = "TransportError" /\ i < max_retries)
        => Len(outcomes) > i

\* C3: when an invocation of func fails with a protocol-level failure
\* (HTTPStatusError), it is the last invocation, no sleep follows it, and
\* _retry_request has raised that failure to its caller.
C3_ProtocolFailureNotRetried ==
    \A i \in 1..Len(outcomes) :
        (call.op = "_retry_request" /\ outcomes[i].r = "HTTPStatusError")
        => /\ i = Len(outcomes)
           /\ Len(sleeps) = i - 1
           /\ pc = "idle"
           /\ res = Raised("HTTPStatusError")

\* a retried failure, then a protocol-level failure on the second invocation,
\* which was raised at once: one sleep (before it), none after
C3_Witness ==
    /\ call.op = "_retry_request" /\ max_retries >= 3
    /\ Len(outcomes) = 2
    /\ outcomes[1].r = "Exception" /\ outcomes[2].r = "HTTPStatusError"
    /\ Len(sleeps) = 1
    /\ res = Raised("HTTPStatusError")

\* C4: the i-th sleep of _retry_request is delay * 2^(i-1); when func fails
\* retryably k times and then succeeds, _retry_request returns func's value
\* after exactly k sleeps; when all max_retries invocations fail retryably,
\* exactly max_retries - 1 sleeps have happened (none after the last
\* invocation) and the failure is raised.
C4_BackoffSchedule ==
    call.op = "_retry_request" =>
        LET n == Len(outcomes) IN
        /\ \A i \in 1..Len(sleeps) : sleeps[i] = delay * (2 ^ (i - 1))
        /\ max_retries > 0 => n <= max_retries
        /\ (pc = "idle" /\ n > 0 /\ outcomes[n].r = "ok")
           => /\ res.kind = "returned" /\ res.val = outcomes[n].v
              /\ \A i \in 1..(n - 1) : outcomes[i].r = "Exception"
              /\ Len(sleeps) = n - 1
        /\ (pc = "idle" /\ n > 0 /\ n = max_retries /\ outcomes[n].r = "Exception")
           => /\ res = Raised("Exception")
              /\ Len(sleeps) = max_retries - 1

\* func failed on invocations 1 and 2 and succeeded on the third: the value
\* is returned after the sleeps delay, 2 * delay
C4_Witness ==
    /\ call.op = "_retry_request" /\ pc = "idle"
    /\ Len(outcomes) = 3
    /\ outcomes[1].r = "Exception" /\ outcomes[2].r = "Exception"
    /\ outcomes[3].r = "ok"
    /\ delay = 2 /\ sleeps = <<2, 4>>
    /\ res.kind = "returned" /\ res.val = outcomes[3].v

-----------------------------------------------------------------------------
(* Properties of the query wrappers and the mutations *)

\* C5 (as stated): when a query wrapper is called with force_refresh false
\* and an entry under its key younger than the TTL, it returns the cached
\* value without a remote call; otherwise it calls the remote through
\* _retry_request; and when the remote call succeeds the result is stored
\* under the key with the current time and returned.
C5_QueryStepAlways ==
    /\ (ncalls' = ncalls + 1 /\ call'.kind = "query") =>
          LET k == call'.key
              fresh == k \in DOMAIN cache /\ now - cache[k][1] < cache_timeout
          IN IF ~call'.force /\ fresh
             THEN /\ pc' = "idle" /\ outcomes' = <<>> /\ cache' = cache
                  /\ res'.kind = "returned" /\ res'.val = cache[k][2]
             ELSE /\ pc' = "attempt" /\ max_retries' = 3 /\ outcomes' = <<>>
                  /\ cache' = cache
    /\ (call.kind = "query" /\ pc = "attempt"
            /\ Len(outcomes') = Len(outcomes) + 1
            /\ outcomes'[Len(outcomes')].r = "ok") =>
          LET v == outcomes'[Len(outcomes')].v IN
          /\ pc' = "idle"
          /\ res'.kind = "returned" /\ res'.val = v
          /\ call.key \in DOMAIN cache' /\ cache'[call.key] = <<now, v>>
          /\ \A k \in DOMAIN cache : k # call.key =>
                k \in DOMAIN cache' /\ cache'[k] = cache[k]

C5_QueryStep ==
    /\ (ncalls' = ncalls + 1 /\ call'.kind = "query") =>
          LET k == call'.key
              fresh == k \in DOMAIN cache /\ now - cache[k][1] < cache_timeout
              given == \A i \in 1..2 : call'.args[i] # None
          IN IF call'.op = "get_patches" /\ ~given
             THEN /\ pc' = "idle" /\ outcomes' = <<>> /\ cache' = cache
                  /\ res'.kind = "returned" /\ res'.status = "[]"
             ELSE IF ~call'.force /\ fresh
             THEN /\ pc' = "idle" /\ outcomes' = <<>> /\ cache' = cache
                  /\ res'.kind = "returned" /\ res'.val = cache[k][2]
             ELSE /\ pc' = "attempt" /\ max_retries' = 3 /\ outcomes' = <<>>
                  /\ cache' = cache
    /\ (call.kind = "query" /\ pc = "attempt"
            /\ Len(outcomes') = Len(outcomes) + 1
            /\ outcomes'[Len(outcomes')].r = "ok") =>
          LET v == outcomes'[Len(outcomes')].v IN
          /\ pc' = "idle"
          /\ res'.kind = "returned" /\ res'.val = v
          /\ call.key \in DOMAIN cache' /\ cache'[call.key] = <<now, v>>
          /\ \A k \in DOMAIN cache : k # call.key =>
                k \in DOMAIN cache' /\ cache'[k] = cache[k]

C6_QueryFailureGivesDefault ==
    (call.kind = "query" /\ pc = "idle" /\ outcomes # <<>>
        /\ outcomes[Len(outcomes)].r # "ok")
    => res.kind = "returned" /\ res.via = "default"

\* C7 (as stated): a mutation that has ended has returned a structured
\* result and has not raised, also when the retries were exhausted.
C7_MutationNeverRaises ==
    (call.kind = "mutation" /\ pc = "idle" /\ outcomes # <<>>)
    => res.kind = "returned" /\ res.status \in {"success", "error"}

\* C10: after delete_device(m, d) has ended with its remote call returning,
\* the cache holds no key that starts with devices_by_manufacturer_{m} and
\* no key that starts with patches_{m}_{d}; and a following
\* get_devices_by_manufacturer(m), or get_patches for m, d and any folder,
\* with force_refresh false goes to the remote.
C10_DeleteDeviceStep ==
    LET m == call.args[1]
        d == call.args[2]
        done(c, p, r) == /\ c.op = "delete_device" /\ p = "idle"
                         /\ r.kind = "returned" /\ r.via = "remote"
        stale(k) ==
            LET p1 == <<"devices_by_manufacturer", "_">> \o m
                p2 == <<"patches", "_">> \o m \o <<"_">> \o d
            IN \/ Len(p1) <= Len(k) /\ \A i \in 1..Len(p1) : k[i] = p1[i]
               \/ Len(p2) <= Len(k) /\ \A i \in 1..Len(p2) : k[i] = p2[i]
    IN
    /\ (done(call', pc', res') /\ call' = call) =>
            \A k \in DOMAIN cache' : ~stale(k)
    /\ (done(call, pc, res) /\ ncalls' = ncalls + 1 /\ ~call'.force
            /\ \/ call'.op = "get_devices_by_manufacturer" /\ call'.args = <<m>>
               \/ call'.op = "get_patches" /\ call'.args[1] = m
                                           /\ call'.args[2] = d)
       => pc' = "attempt" /\ res'.kind # "returned"

C10_DeleteDevice == [][C10_DeleteDeviceStep]_vars

\* delete_device has returned after its two clears removed an entry
C10_Witness ==
    /\ call.op = "delete_device" /\ pc = "idle"
    /\ res.kind = "returned" /\ res.via = "remote"
    /\ cleared >= 1

-----------------------------------------------------------------------------
(* Properties of the cache operations *)

\* C8: a _get_from_cache(k) at time t' returns the value v of the last
\* _set_cache(k, v), made at time t and not followed by a clear of k, if
\* t' - t < ttl, and misses if t' - t >= ttl or there is no such set; a
\* _set_cache(k, v2) replaces both the value and the timestamp.
C8_RoundTripStep ==
    /\ (ncalls' = ncalls + 1 /\ call'.op = "_get_from_cache") =>
          LET k == call'.key IN
          /\ res'.val = IF k \in DOMAIN lastset
                           /\ now - lastset[k][1] < cache_timeout
                        THEN lastset[k][2] ELSE NoData
          /\ cache' = cache
    /\ (ncalls' = ncalls + 1 /\ call'.op = "_set_cache") =>
          /\ call'.key \in DOMAIN cache'
          /\ cache'[call'.key] = <<now, res'.val>>
          /\ lastset'[call'.key] = <<now, res'.val>>

C8_RoundTrip == [][C8_RoundTripStep]_vars

\* a get exactly ttl after the set of its key: a miss
C8_Witness ==
    /\ call.op = "_get_from_cache" /\ call.key \in DOMAIN lastset
    /\ now - lastset[call.key][1] = cache_timeout
    /\ res.val = NoData

\* C9: clear_cache_for_prefix(p) removes every key that starts with p and
\* no other key: every key that does not start with p is still there with
\* its value and timestamp, and no key is added.
C9_ClearPrefixStep ==
    (ncalls' = ncalls + 1 /\ call'.op = "clear_cache_for_prefix") =>
        LET p == call'.key
            starts(k) == \E n \in 0..Len(k) : SubSeq(k, 1, n) = p
        IN
        /\ DOMAIN cache' = {k \in DOMAIN cache : ~starts(k)}
        /\ \A k \in DOMAIN cache' : cache'[k] = cache[k]

C9_ClearPrefix == [][C9_ClearPrefixStep]_vars

\* clear_cache_for_prefix("patches_a_b") removed an entry and left the
\* entry of "manufacturers"
C9_Witness ==
    /\ call.op = "clear_cache_for_prefix"
    /\ call.key = <<"patches", "_", "a", "_", "b">>
    /\ cleared >= 1
    /\ <<"manufacturers">> \in DOMAIN cache

-----------------------------------------------------------------------------
(* Properties of the remote sync: its steps and its results *)

\* C11 (as stated): when a sync invocation has returned after a status that
\* succeeded and was empty (its last git command is the status and no step
\* failed), what it reports is (true, "no changes to commit"), and neither
\* commit nor push ran, nor was the parent's pointer staged.
C11_CleanTreeReportsSuccess ==
    \A w \in Workers :
        (ppc[w] = "returned" /\ pres[w].failed = <<>> /\ gitlog[w] # <<>>
            /\ gitlog[w][Len(gitlog[w])] = "status")
        => /\ pres[w].ok = TRUE
           /\ pres[w].msg \in {"No changes to commit in midi-presets",
                               "No changes to commit"}
           /\ \A i \in 1..Len(emits[w]) : emits[w][i][1] = TRUE
           /\ \A i \in 1..Len(gitlog[w]) :
                gitlog[w][i] \notin {"commit", "push", "parent_add"}

\* C12: the git commands of a sync invocation run in the order submodule
\* sync, submodule update, status, add, status, commit, push, add of the
\* parent's pointer (the GUI: add, status, commit, push), each only after
\* all the earlier ones succeeded and nothing ended the call; commit runs
\* only when the tree has changes; and once a step has failed no further
\* command runs and the invocation goes to its finally clause.
C12_StateMachineStep ==
    \A w \in Workers :
        LET order == IF variant'[w] = "api"
                     THEN <<"submodule_sync", "submodule_update", "pre_status",
                            "add", "status", "commit", "push", "parent_add">>
                     ELSE <<"add", "status", "commit", "push">>
            n == Len(gitlog'[w])
        IN
        /\ (gitlog'[w] # gitlog[w] /\ n > 0) =>
              /\ gitlog'[w] = Append(gitlog[w], gitlog'[w][n])
              /\ n <= Len(order) /\ gitlog'[w] = SubSeq(order, 1, n)
              /\ pres[w].failed = <<>> /\ pres[w].msg = ""
              /\ gitlog'[w][n] = "commit" => dirty
        /\ pres'[w].failed # <<>> => ppc'[w] \in {"finally", "returned"}
        /\ ppc[w] = "finally" => gitlog'[w] = gitlog[w]

C12_StateMachine == [][C12_StateMachineStep]_vars

\* run_git_remote_sync has returned success after all eight git commands
C12_Witness ==
    /\ ppc[1] = "returned" /\ variant[1] = "api" /\ pres[1].ok
    /\ gitlog[1] = <<"submodule_sync", "submodule_update", "pre_status",
                     "add", "status", "commit", "push", "parent_add">>

\* C13 (as stated): a sync invocation never raises: it always ends by
\* returning, and when something failed (in any of the ways the code
\* distinguishes, or with an unexpected error) what it returns is
\* (false, message) with a non-empty message (the GUI: that pair is the
\* last one emitted).
C13_NeverRaises ==
    \A w \in Workers :
        ppc[w] = "returned" =>
            /\ pres[w].kind = "returned"
            /\ pres[w].failed # <<>> =>
                  /\ pres[w].ok = FALSE /\ pres[w].msg # ""
                  /\ variant[w] = "gui" =>
                        emits[w][Len(emits[w])] = <<FALSE, pres[w].msg>>

\* C14: run_git_remote_sync checks the directory three times (exists, is a
\* directory, can be listed) in that order, before the working directory is
\* changed; each check that fails returns (false, message) with a message
\* of its own, and then no add, commit or push has run.
C14_ThreeChecks ==
    \A w \in Workers :
        variant[w] = "api" =>
            LET checks == {"check_exists", "check_isdir", "check_listdir"}
                f == pres[w].failed
                nogit == \A i \in 1..Len(gitlog[w]) :
                            gitlog[w][i] \in {"submodule_sync", "submodule_update"}
            IN
            /\ ppc[w] \in checks => cwd = cwd0[w] /\ nogit
            /\ (f # <<>> /\ f[1] \in checks /\ f[2] \in {"no", "PermissionError"}) =>
                  /\ pres[w].ok = FALSE
                  /\ pres[w].msg =
                        CASE f[1] = "check_exists" ->
                                "Midi-presets directory not found"
                          [] f[1] = "check_isdir" ->
                                "Path exists but is not a directory"
                          [] f[1] = "check_listdir" ->
                                "Permission denied when accessing directory"
                  /\ nogit
                  /\ ppc[w] = "finally" => cwd = cwd0[w]

\* the directory exists but is not a directory: returned with that message
C14_Witness ==
    /\ ppc[1] = "returned" /\ variant[1] = "api"
    /\ pres[1].failed = <<"check_isdir", "no">>
    /\ pres[1].msg = "Path exists but is not a directory"
    /\ gitlog[1] = <<"submodule_sync", "submodule_update">>

\* C15: a sync invocation restores, in its finally clause, the directory
\* that was the working directory when it was called, whatever another
\* invocation running at the same time has made of it; so two invocations
\* that overlap can both return and leave the process in the first one's
\* temporary directory.
C15_RestoresWhatItRecordedStep ==
    \A w \in Workers :
        (ppc[w] = "finally" /\ ppc'[w] = "returned" /\ restore'[w] = "ok")
        => cwd' = cwd0[w]

C15_RestoresWhatItRecorded == [][C15_RestoresWhatItRecordedStep]_vars

\* both invocations have returned, each having restored its directory, and
\* the working directory is not the one in effect before either started:
\* the second was called inside the first one's midi-presets
C15_Witness ==
    /\ \A w \in Workers : ppc[w] = "returned" /\ restore[w] = "ok"
    /\ npush = 2
    /\ cwd0[1] = Root /\ cwd0[2] = <<"r2midi", "midi-presets">>
    /\ cwd = <<"r2midi", "midi-presets">>

-----------------------------------------------------------------------------
(* Properties of the catalog and of pull *)

\* C16: a pull (run_git_sync) made while synchronization is disabled returns
\* at once: no git operation and no remote call is made, nothing is raised,
\* and the server's DeviceManager returns the "disabled" result, whose
\* message is "Sync is disabled" (the client's MainWindow returns None).
C16_DisabledPullStep ==
    (<<sync_who, sync_res>>' # <<sync_who, sync_res>> /\ ~sync_enabled)
    => /\ sync_res'.invoked = FALSE
       /\ sync_res'.kind \in {"pair", "none"}
       /\ sync_who' = "server" =>
             /\ sync_res'.kind = "pair"
             /\ sync_res'.msg = "Sync is disabled"
             /\ sync_res'.ok = FALSE
       /\ sync_who' = "client" => sync_res'.kind = "none"

C17_MonotonicFiltering ==
    \A M \in ManufacturerNames, D \in DeviceNames,
       F \in FolderNames \cup {NoFilter} :
        LET both == get_all_presets(snapshot, D, M, F)
            of_m == get_all_presets(snapshot, NoFilter, M, F)
            of_d == get_all_presets(snapshot, D, NoFilter, F)
            all == get_all_presets(snapshot, NoFilter, NoFilter, F)
        IN  /\ Elements(both) \subseteq Elements(of_m)
            /\ Elements(both) \subseteq Elements(of_d)
            /\ Elements(of_m) \subseteq Elements(all)
            /\ Elements(of_d) \subseteq Elements(all)
            /\ Len(both) <= Len(of_m) /\ Len(of_m) <= Len(all)
            /\ (~dict_has(snapshot.devices, D)
                  \/ dict_get(snapshot.devices, D).manufacturer # M)
               => both = <<>>

\* get_all_presets(manufacturer="Roland", device="JV-1080") was called on a
\* snapshot with devices of two manufacturers and returned the three default
\* presets, fewer than get_all_presets() has
C17_Witness ==
    /\ dq = DmQuery("get_all_presets", "JV-1080", "Roland", NoFilter)
    /\ dres.v = tagged(<<"P1", "P2", "P3">>, "default")
    /\ dres.v = get_all_presets(snapshot, "JV-1080", "Roland", NoFilter)
    /\ Len(get_all_presets(snapshot, NoFilter, "Korg", NoFilter)) > 0
    /\ Len(get_all_presets(snapshot, NoFilter, "Roland", NoFilter))
          < Len(get_all_presets(snapshot, NoFilter, NoFilter, NoFilter))

\* C18: when get_all_presets is called with a community folder F and the
\* name of a device D of the snapshot (and no other manufacturer than its
\* own), the result is: if D declares F among its community_folders, exactly
\* the presets of collection F, in the collection's order, each tagged
\* source = F, and none of D's default presets; if D does not declare F,
\* exactly the presets of D's default collection, in order, each tagged
\* source = "default".
C18_CommunityFolderReplacesStep ==
    (/\ <<dq, dres>>' # <<dq, dres>>
     /\ dq'.op = "get_all_presets"
     /\ dq'.community_folder # NoFilter
     /\ dict_has(snapshot.devices, dq'.name)
     /\ dq'.manufacturer \in
            {NoFilter, dict_get(snapshot.devices, dq'.name).manufacturer})
    => LET e == dict_get(snapshot.devices, dq'.name)
           F == dq'.community_folder
           got == dres'.v
           declared == \E i \in 1..Len(e.community_folders) :
                          e.community_folders[i] = F
           source == IF declared THEN F ELSE "default"
           want == collection_presets(e, source)
       IN  /\ Len(got) = Len(want)
           /\ \A i \in 1..Len(got) :
                got[i] = [preset_name |-> want[i], source |-> source]

C18_CommunityFolderReplaces == [][C18_CommunityFolderReplacesStep]_vars

\* the worked example: JV-1080 of Roland has three default presets and
\* declares alice, which has two; asked with community_folder = alice the
\* two come back, tagged alice
C18_Witness ==
    /\ dq = DmQuery("get_all_presets", "JV-1080", "Roland", "alice")
    /\ dict_has(snapshot.devices, "JV-1080")
    /\ Len(collection_presets(dict_get(snapshot.devices, "JV-1080"), "default")) = 3
    /\ dres.v = << [preset_name |-> "C1", source |-> "alice"],
                   [preset_name |-> "C2", source |-> "alice"] >>

C20_AccessorsStep ==
    <<dq, dres>>' # <<dq, dres>> =>
        LET name == dq'.name
            known == \E i \in 1..Len(snapshot.devices) :
                        snapshot.devices[i].name = name
            is_file(i, j) == /\ scanned[i].files[j].ok
                             /\ scanned[i].files[j].name = name
            last_file(i, j) ==
                /\ is_file(i, j)
                /\ \A i2 \in 1..Len(scanned) :
                     \A j2 \in 1..Len(scanned[i2].files) :
                        is_file(i2, j2) => (i2 < i \/ (i2 = i /\ j2 <= j))
        IN
        /\ dres'.kind \in {"value", "none"}
        /\ (dq'.op = "get_device_by_name" /\ ~known) => dres' = NotFound
        /\ (dq'.op = "get_device_by_name" /\ known) =>
              /\ dres'.kind = "value"
              /\ dres'.v.name = name
              /\ \E i \in 1..Len(scanned) : \E j \in 1..Len(scanned[i].files) :
                    /\ last_file(i, j)
                    /\ dres'.v.manufacturer = scanned[i].name
                    /\ dres'.v.community_folders =
                          scanned[i].files[j].community_folders
                    /\ dres'.v.collections[1] =
                          Collection("default", scanned[i].files[j].presets)
        /\ (dq'.op = "get_devices_by_manufacturer"
              /\ \A i \in 1..Len(snapshot.device_structure) :
                    snapshot.device_structure[i].name # name)
           => dres' = Found(<<>>)
        /\ (dq'.op = "get_community_folders" /\ ~known) => dres' = Found(<<>>)
        /\ (dq'.op = "get_preset_by_name"
              /\ \A i \in 1..Len(snapshot.devices) :
                    \A c \in 1..Len(snapshot.devices[i].collections) :
                        name \notin
                            Elements(snapshot.devices[i].collections[c].presets))
           => dres' = NotFound

C20_Accessors == [][C20_AccessorsStep]_vars

\* get_device_by_name of a name that no device of a non-empty snapshot has
\* returned None
C20_Witness ==
    /\ dq = DmQuery("get_device_by_name", "D-50", NoFilter, NoFilter)
    /\ dres = NotFound
    /\ Len(snapshot.devices) = 2

\* C21 (as stated): after a scan, whatever malformed files the tree has and
\* in whatever order its directories are visited, the snapshot has, for
\* every well-formed device file of the tree the scan walked, a device
\* of the file's name under the file's manufacturer.
C21_ScanKeepsEveryFile ==
    \A i \in 1..Len(scanned) : \A j \in 1..Len(scanned[i].files) :
        scanned[i].files[j].ok =>
            \E k \in 1..Len(snapshot.devices) :
                /\ snapshot.devices[k].name = scanned[i].files[j].name
                /\ snapshot.devices[k].manufacturer = scanned[i].name

-----------------------------------------------------------------------------
(* Properties of the client, continued *)

\* C22: a retry sequence with max_retries >= 1 runs to success or to
\* exhaustion: func is invoked at least once and at most max_retries times;
\* when the call has ended it has returned the value of its last invocation,
\* which is the only one that succeeded, or raised the failure of its last
\* invocation; and while it runs every step brings it nearer to its end
\* (2 * (max_retries - attempt), less one while it sleeps, decreases and
\* stays positive), so it cannot run forever.
C22_RetryTerminatesStep ==
    LET left(p, a, mr) == 2 * (mr - a) - (IF p = "sleeping" THEN 1 ELSE 0)
        n == Len(outcomes')
    IN
    (call'.op = "_retry_request" /\ max_retries' >= 1) =>
        /\ n <= max_retries'
        /\ pc' # "idle" => left(pc', attempt', max_retries') > 0
        /\ (pc # "idle" /\ pc' # "idle") =>
              left(pc', attempt', max_retries') < left(pc, attempt, max_retries)
        /\ pc' = "idle" =>
              /\ n >= 1
              /\ \A i \in 1..(n - 1) : outcomes'[i].r # "ok"
              /\ outcomes'[n].r = "ok" =>
                    res'.kind = "returned" /\ res'.val = outcomes'[n].v
              /\ outcomes'[n].r # "ok" => res' = Raised(outcomes'[n].r)

C22_RetryTerminates == [][C22_RetryTerminatesStep]_vars

\* exhaustion: both invocations of a call with max_retries = 2 failed and
\* the second failure was raised
C22_Witness ==
    /\ call.op = "_retry_request" /\ pc = "idle" /\ max_retries = 2
    /\ Len(outcomes) = 2
    /\ outcomes[1].r = "Exception" /\ outcomes[2].r = "Exception"
    /\ res = Raised("Exception")

\* C23 (as stated): whenever a sync invocation has returned success, no
\* commit made in the nested repository by this or an earlier invocation is
\* still unpublished.
C23_SuccessMeansPublished ==
    \A w \in Workers :
        (ppc[w] = "returned" /\ pres[w].kind = "returned" /\ pres[w].ok)
        => ~unpushed

\* C24 (as stated): when no coroutine of the shared client is between its
\* call and its return, and the mutation has returned, the cache holds under
\* the query's key nothing but what the server holds now.
C24_NoStaleEntryAfterMutation ==
    (qpc \in {"idle", "done"} /\ mpc = "done"
        /\ shared_query(FALSE).key \in DOMAIN cache)
    => cache[shared_query(FALSE).key][2] = server

\* C25 (as stated): when a mutation returns a success result, no valid
\* entry remains under the key of a query whose result it can change: for
\* delete_manufacturer(m) manufacturers, devices_by_manufacturer_m,
\* device_info_m, patches_m_* and collections_m_*; for create_device and
\* delete_device devices_by_manufacturer_m and device_info_m; for
\* delete_device(m, d) also patches_m_d_*, community_folders_d and
\* collections_m_d.
C25_InvalidationCompleteStep ==
    LET m == call.args[1]
        d == call.args[2]
        changes ==
            CASE call.op = "delete_manufacturer" ->
                    {key_manufacturers, key_devices_by_manufacturer(m),
                     key_device_info(m)}
                    \cup {key_patches(m, x, None) : x \in WideDevices}
                    \cup {key_collections(m, x) : x \in WideDevices}
              [] call.op = "create_device" ->
                    {key_devices_by_manufacturer(m), key_device_info(m)}
              [] call.op = "delete_device" ->
                    {key_devices_by_manufacturer(m), key_device_info(m),
                     key_patches(m, d, None), key_community_folders(d),
                     key_collections(m, d)}
              [] OTHER -> {}
    IN
    (/\ call.kind = "mutation" /\ pc = "attempt" /\ pc' = "idle"
     /\ res'.kind = "returned" /\ res'.status = "success")
    => \A k \in changes : ~is_cache_valid(cache', k, now', cache_timeout')
C25_InvalidationComplete == [][C25_InvalidationCompleteStep]_vars

\* C26 (as stated): a mutation on device (m, d) or on manufacturer m leaves
\* untouched every cache entry of a query for another device or another
\* manufacturer, also when d or m is the beginning of the other name.
C26_PreciseInvalidationStep ==
    LET m == call.args[1]
        d == call.args[2]
        \* the manufacturer and the device a query is about (None: neither)
        qm(q) == CASE q.op \in {"get_devices_by_manufacturer",
                                "get_device_info", "get_patches",
                                "get_collections"} -> q.args[1]
                   [] OTHER -> None
        qd(q) == CASE q.op \in {"get_patches", "get_collections"} -> q.args[2]
                   [] q.op = "get_community_folders" -> q.args[1]
                   [] OTHER -> None
        other(q) ==
            CASE call.op = "create_device" -> qm(q) # None /\ qm(q) # m
              [] call.op \in {"delete_device", "delete_preset",
                              "update_collection"} ->
                    \/ qm(q) # None /\ qm(q) # m
                    \/ qd(q) # None /\ qd(q) # d
              [] OTHER -> FALSE
    IN
    (call.kind = "mutation" /\ pc = "attempt" /\ pc' = "idle")
    => \A q \in WideQueryCalls :
          (q.key \in DOMAIN cache /\ other(q))
          => (q.key \in DOMAIN cache' /\ cache'[q.key] = cache[q.key])
C26_PreciseInvalidation == [][C26_PreciseInvalidationStep]_vars

\* C27 (as stated): two query calls that go to the cache have the same key
\* only if they are the same operation with the same arguments.
C27_KeysInjective ==
    (call.kind = "query" /\ ~call.early)
    => \A q \in WideQueryCalls :
          (~q.early /\ q.key = call.key)
          => (q.op = call.op /\ q.args = call.args)

\* C28: a query call that does not end with its remote call returning never
\* writes to the cache: on every step of the call but the one on which the
\* remote call returns, the cache (values and timestamps) stays as it is;
\* and after a query has failed, a non-forced call for the same key made
\* while the entry last stored under it is younger than the TTL is a hit
\* that returns that entry's value.
C28_FailedQueryKeepsCacheStep ==
    LET answered == pc = "attempt" /\ pc' = "idle" /\ res'.via = "remote"
        failed == /\ call.kind = "query" /\ pc = "idle" /\ outcomes # <<>>
                  /\ outcomes[Len(outcomes)].r # "ok"
    IN
    /\ (call'.kind = "query" /\ ~answered) => cache' = cache
    /\ (/\ failed /\ ncalls' = ncalls + 1
        /\ call'.kind = "query" /\ ~call'.force /\ call'.key = call.key
        /\ call.key \in DOMAIN lastset
        /\ now - lastset[call.key][1] < cache_timeout)
       => /\ pc' = "idle" /\ res'.via = "hit"
          /\ res'.val = lastset[call.key][2]
C28_FailedQueryKeepsCache == [][C28_FailedQueryKeepsCacheStep]_vars

\* a forced query has failed and returned its default; the entry stored by
\* an earlier call is still there and valid
C28_Witness ==
    /\ call.kind = "query" /\ call.force /\ pc = "idle"
    /\ res.via = "default" /\ outcomes # <<>>
    /\ call.key \in DOMAIN cache /\ cache[call.key][2] \in Values
    /\ is_cache_valid(cache, call.key, now, cache_timeout)

\* C29: during a mutation the cache changes on no step but the one on which
\* the remote call returns a response: a mutation whose remote call fails
\* (a rejection, a transport failure, or any other exception, retried or
\* not) ends with the cache, values and timestamps, exactly as it was when
\* the mutation was called.
C29_FailedMutationKeepsCacheStep ==
    LET answered == /\ pc = "attempt" /\ pc' = "idle"
                    /\ outcomes'[Len(outcomes')].r = "ok"
    IN
    (call'.kind = "mutation" /\ ~answered) => cache' = cache
C29_FailedMutationKeepsCache == [][C29_FailedMutationKeepsCacheStep]_vars

\* a mutation was rejected by the server and has returned its error result;
\* an entry under one of its prefixes, stored before, is still in the cache
C29_Witness ==
    /\ call.kind = "mutation" /\ pc = "idle"
    /\ outcomes # <<>> /\ outcomes[Len(outcomes)].r = "HTTPStatusError"
    /\ res.via = "except"
    /\ \E k \in DOMAIN cache : \E i \in 1..Len(call.prefixes) :
            startswith(k, call.prefixes[i])

\* C30: run_git_sync never raises; when it returns success the cache is
\* empty, when it returns failure the cache is as it was, and no other step
\* of it touches the cache.  A step of run_git_remote_sync empties the
\* cache when it is the parent's `git add` succeeding after the commit and
\* the push, and leaves the cache as it was on every other step: the
\* no-changes return, every failure, the finally clause.
C30_SyncAndCacheStep ==
    LET sync_step == /\ call'.op = "run_git_sync"
                     /\ <<pc, call, attempt, ncalls>>' # <<pc, call, attempt, ncalls>>
        sync_returns == call.op = "run_git_sync" /\ pc = "attempt" /\ pc' = "idle"
        push_step == ppc'[1] # ppc[1]
        n == Len(gitlog'[1])
        full == /\ variant[1] = "api" /\ ppc[1] = "parent_add"
                /\ pres'[1].ok /\ pres'[1].failed = <<>>
                /\ n >= 3
                /\ SubSeq(gitlog'[1], n - 2, n) = <<"commit", "push", "parent_add">>
    IN
    /\ sync_returns =>
          /\ res'.kind = "returned" /\ res'.status \in {"success", "error"}
          /\ res'.status = "success" => DOMAIN cache' = {}
          /\ res'.status = "error" => cache' = cache
    /\ (sync_step /\ ~sync_returns) => cache' = cache
    /\ push_step => IF full THEN DOMAIN cache' = {} ELSE cache' = cache
C30_SyncAndCache == [][C30_SyncAndCacheStep]_vars

\* run_git_sync has failed three times with an exception that is no
\* httpx.HTTPError and has returned failure, run_git_remote_sync has
\* returned on its no-changes path, and the cached entry is still there
C30_Witness ==
    /\ call.op = "run_git_sync" /\ pc = "idle" /\ Len(outcomes) = 3
    /\ outcomes[3].r = "Exception" /\ res = Returned("sync", 0, "error")
    /\ ppc[1] = "returned" /\ pres[1].ok
    /\ pres[1].msg = "No changes to commit in midi-presets"
    /\ key_manufacturers \in DOMAIN cache

-----------------------------------------------------------------------------
(* Properties of the cache operations, continued *)

\* C31: _get_from_cache never changes the cache map; an entry, expired or
\* not, leaves the map or changes only on a _set_cache of its key (which
\* overwrites it), a clear_cache, or a clear_cache_for_prefix whose prefix
\* its key starts with; the passing of time removes nothing.
C31_LazyExpiryStep ==
    /\ call'.op = "_get_from_cache" => cache' = cache
    /\ \A k \in DOMAIN cache :
          (k \notin DOMAIN cache' \/ cache'[k] # cache[k])
          => /\ ncalls' = ncalls + 1
             /\ \/ call'.op = "_set_cache" /\ call'.key = k /\ k \in DOMAIN cache'
                \/ call'.op = "clear_cache" /\ k \notin DOMAIN cache'
                \/ /\ call'.op = "clear_cache_for_prefix" /\ k \notin DOMAIN cache'
                   /\ \E n \in 0..Len(k) : SubSeq(k, 1, n) = call'.key
C31_LazyExpiry == [][C31_LazyExpiryStep]_vars

\* a lookup has missed on an entry older than the TTL, and the entry is
\* still in the map with its timestamp and value
C31_Witness ==
    /\ call.op = "_get_from_cache" /\ res.val = NoData
    /\ call.key \in DOMAIN cache
    /\ now - cache[call.key][1] > cache_timeout
    /\ cache[call.key] = lastset[call.key]

-----------------------------------------------------------------------------
(* Properties of the GUI *)

\* C32 (as stated): a run of GitSyncWorker.run that has returned has called
\* finished.emit exactly once, with true exactly when no step failed (the
\* no-changes path and the add/commit/push path) and false otherwise.
C32_SignalsOnce ==
    \A w \in Workers :
        (ppc[w] = "returned" /\ variant[w] = "gui" /\ pres[w].kind = "returned")
        => /\ Len(emits[w]) = 1
           /\ emits[w][1][1] = (pres[w].failed = <<>>)

\* C33 (as stated): wait_for_server makes at most max_server_check_retries
\* checks; load_data is called at most once; data loading starts with
\* server_available true only after a check whose request the server
\* answered, the retry counter being 0 again; and when it gave up, the
\* checks were all made, the error was reported once and server_available
\* is false.
C33_WaitForServer ==
    /\ nchecks <= max_server_check_retries
    /\ nloads <= 1
    /\ wpc = "loaded" =>
          /\ nloads = 1
          /\ server_available => (check_answered /\ server_check_retries = 0)
          /\ ~server_available =>
                /\ nchecks = max_server_check_retries /\ reported = 1

\* C34 (as stated): once the startup sequence is over (the git sync task
\* has run, the server wait has ended) with sync enabled and the server
\* reachable (it answered the availability check), the /git/sync request
\* has been issued through api_client.run_git_sync.
C34_StartupSyncIssued ==
    (/\ gpc = "done" /\ wpc = "loaded"
     /\ sync_enabled /\ server_available /\ check_answered)
    => (sync_who = "client" /\ sync_res.invoked)

-----------------------------------------------------------------------------
(* Properties of the MIDI output *)

SentMessages ==
    {mres.log[i].msg : i \in {j \in 1..Len(mres.log) :
                                mres.log[j].ev = "send_message"}}

\* C35: every MIDI message sent, by send_midi_command or by a preset select
\* with any argument values, is well-formed: a Control Change has its
\* status byte in 0xB0..0xBF, a Program Change in 0xC0..0xCF, and every
\* data byte is in 0..127.
C35_WellFormedMessages ==
    /\ \A m \in SentMessages :
          /\ Len(m) = 3 => m[1] \in 176..191
          /\ Len(m) = 2 => m[1] \in 192..207
          /\ \A i \in 2..Len(m) : m[i] \in 0..127

\* the words of a command: what lies between its spaces
RECURSIVE words(_)
words(str) ==
    LET sp == find(str, <<" ">>, 0)
    IN IF sp < 0 THEN <<str>>
       ELSE <<slice(str, 0, sp)>> \o words(slice(str, sp + 1, Len(str)))

\* the word after some word `name` is an integer in lo..hi
has_value(w, name, lo, hi) ==
    \E i \in 1..(Len(w) - 1) :
        /\ w[i] = name
        /\ ~int_raises(w[i + 1])
        /\ int(w[i + 1]) \in lo..hi

\* the word dev is followed by a port name between two quotes of one kind
has_quoted_dev(w) ==
    \E i \in 1..(Len(w) - 1) :
        /\ w[i] = <<"d", "e", "v">>
        /\ w[i + 1] # <<>>
        /\ w[i + 1][1] \in {"\"", "'"}
        /\ \E j \in (i + 1)..Len(w) :
              /\ w[j] # <<>>
              /\ w[j][Len(w[j])] = w[i + 1][1]
              /\ j = i + 1 => Len(w[j]) >= 2

\* cc 0 followed by an integer in 0..127
has_cc_0(w) ==
    \E i \in 1..(Len(w) - 2) :
        /\ w[i] = <<"c", "c">>
        /\ w[i + 1] = <<"0">>
        /\ ~int_raises(w[i + 2])
        /\ int(w[i + 2]) \in 0..127

complete_command(command) ==
    LET w == words(command)
    IN /\ has_quoted_dev(w)
       /\ has_value(w, <<"c", "h">>, 1, 16)
       /\ has_cc_0(w)
       /\ has_value(w, <<"p", "c">>, 0, 127)

\* the rtmidi calls made by the n-th send of the last call
calls_of(n) ==
    [i \in 1..Len(SelectSeq(mres.log, LAMBDA e : e.n = n)) |->
        SelectSeq(mres.log, LAMBDA e : e.n = n)[i].ev]

\* C36: send_midi_command returns (False, message) and sends nothing on any
\* port when the command has no quoted dev port, or no ch, cc 0 or pc
\* word, or when the channel is not an integer in 1..16 or cc_0 or pgm not
\* an integer in 0..127; and it returns (True, _) only if the send on the
\* primary port succeeded.
C36_RejectsBadCommands ==
    mcall.op = "send_midi_command" =>
        /\ ~complete_command(mcall.command) => (~mres.ok /\ mres.log = <<>>)
        /\ mres.ok =>
              calls_of(1) = <<"open_port", "send_message", "send_message",
                              "close_port">>

FullSend == <<"open_port", "send_message", "send_message", "close_port">>

\* the MIDI messages of the n-th send of the last call, in order
sent_by(n) ==
    SelectSeq(mres.log, LAMBDA e : e.n = n /\ e.ev = "send_message")

-----------------------------------------------------------------------------
(* Properties of the loading indicator *)

InProgress(t) == tpc[t] \in {"worker", "scope", "after"}

\* C38: loading_count is never negative; every start of the indicator by a
\* task is matched by exactly one stop, whichever way the task ends; so the
\* indicator is hidden only when no task that started it is still in
\* progress; and it is hidden once every task has finished.
C38_LoadingBalanced ==
    /\ loading_count >= 0
    /\ \A t \in Tasks : tpc[t] = "done" => tstops[t] = tstarts[t]
    /\ \A t \in Tasks : InProgress(t) => tstops[t] <= tstarts[t]
    /\ ~visible => \A t \in Tasks : ~InProgress(t)
    /\ (\A t \in Tasks : ~InProgress(t)) => ~visible

====
